---- MODULE Spec2Model ----
(***************************************************************************)
(* Branch-and-bound TSP solvers of the MPI Wandering-Salesman repository.  *)
(*                                                                         *)
(* Spec   : the hybrid MPI + OpenMP solver (stable_distributed_search,     *)
(*          stable_hybrid_dfs, result reduction and path-gather of main).  *)
(*                                                                         *)
(* Every rank is an MPI process with its own copy of N, dist, best_cost    *)
(* and best_path; the threads of a rank share that rank's best-cost cell.  *)
(***************************************************************************)
EXTENDS Integers, Sequences, FiniteSets, TLC

(* ------------------------------------------------------------------ *)
(* Program constants                                                   *)
(* ------------------------------------------------------------------ *)
INT_MAX == 2147483647

MAX_STACK_SIZE == 65536

\* MAX_N of the hybrid solver and of the v1 solver
MAX_N == 19

MAX_N_V1 == 18

INIT_CAP == 32768

TAG_COST_MSG == 99

TAG_PATH_MSG == 100

(* ------------------------------------------------------------------ *)
(* Bounds of the model                                                 *)
(* ------------------------------------------------------------------ *)
\* largest number of cities
MaxN == 4

\* largest number of MPI ranks
MaxW == 3

\* largest number of OpenMP threads per rank
MaxT == 2

\* distances are drawn from 0..MaxDist
MaxDist == 3

\* generated instances per size are numbered 0..MaxInst
MaxInst == 8

\* node expansions between two MPI_Allreduce calls of the v1 solver
\* (10000 in wsp-mpi.c; scaled to the search trees of MaxN cities)
REDUCE_INTERVAL == 3

\* largest INIT_CAP of the v1 solver in the specification with small stacks
MaxSmallCap == 2

\* distance files: the declared N runs over -MaxNegN .. MaxLoadN, the number
\* of integers that follow it over 0 .. MaxCount, their values follow
\* pattern 0 .. MaxPattern; symmetric instances have up to MaxSymN cities
MaxNegN == 2

MaxLoadN == 20

MaxCount == 364

MaxPattern == 1

MaxSymN == 5

\* largest number of cities and of ranks in the seeding specification
MaxSeedN == 18

MaxSeedW == 8

VARIABLES
    N,                \* number of cities (broadcast; identical on all ranks)
    W,                \* world size
    T,                \* threads per rank (1 when built without OpenMP)
    dist,             \* distance matrix [0..N-1][0..N-1]
    rpc,              \* per rank: position in main
    my_tasks,         \* per rank: seed Tasks built by stable_distributed_search
    stack,            \* per rank, per thread: private DFS stack (Seq of Node)
    tpc,              \* per rank, per thread: position in stable_hybrid_dfs
    cur,              \* per rank, per thread: the leaf being committed
    lock,             \* per rank: thread inside the omp critical section
    best_cost,        \* per rank
    best_path,        \* per rank: [0..N] -> city
    contrib,          \* per rank: value handed to MPI_Allreduce
    global_best,      \* per rank: result of MPI_Allreduce
    chan,             \* per source rank: messages in flight to rank 0
    src,              \* rank 0: loop index of the path-gather
    their_cost,       \* rank 0: cost received from src
    best_path_to_show,\* rank 0
    output,           \* what rank 0 printed
    queue,            \* v1 master: LIFO queue of seed Tasks
    done,             \* v1 master: workers that were sent TAG_NOWORK
    reqs,             \* v1: workers whose TAG_REQ is in flight to rank 0
    reply,            \* v1: per worker, the answer in flight from rank 0
    expansions,       \* v1: per rank, expansions of the running dfs_from_task
    init_cap,         \* slots a DFS stack is allocated with (MAX_STACK_SIZE
                      \* in the hybrid solver, INIT_CAP in the v1 solver)
    cap,              \* v1: per rank, allocated slots of the running dfs_from_task
    dropped,          \* history: a child was not pushed because the stack was full
    file,             \* the distance file rank 0 reads: the declared N and
                      \* the integers that follow it
    lbs               \* the values the bound functions returned for the
                      \* partial tour they were called on

\* the variables only the v1 master/worker solver uses
v1vars == << queue, done, reqs, reply, expansions >>

\* the stack capacities and the record of dropped children
memvars == << init_cap, cap, dropped >>

vars == << N, W, T, dist, rpc, my_tasks, stack, tpc, cur, lock, best_cost,
           best_path, contrib, global_best, chan, src, their_cost,
           best_path_to_show, output, queue, done, reqs, reply, expansions,
           init_cap, cap, dropped, file, lbs >>

Ranks == 0 .. (W - 1)

Threads == 0 .. (T - 1)

Cities == 0 .. (N - 1)

NoThread == -1

NoValue == -1

(* ------------------------------------------------------------------ *)
(* Arithmetic helpers                                                  *)
(* ------------------------------------------------------------------ *)
Pow2(i) == 2 ^ i

\* (mask >> i) & 1
Bit(mask, i) == (mask \div Pow2(i)) % 2

\* mask | (1 << i)
SetBit(mask, i) == IF Bit(mask, i) = 1 THEN mask ELSE mask + Pow2(i)

MinOf(S) == CHOOSE x \in S : \A y \in S : x <= y

(* ------------------------------------------------------------------ *)
(* Bound oracle (hybrid solver)                                        *)
(* ------------------------------------------------------------------ *)
\* one row of precompute_enhanced_bounds: the scan over j with the
\* running pair (min1, min2), both starting at INT_MAX
RECURSIVE ScanRow(_, _, _, _)
ScanRow(i, j, min1, min2) ==
    IF j >= N THEN << min1, min2 >>
    ELSE IF i = j THEN ScanRow(i, j + 1, min1, min2)
    ELSE IF dist[i][j] < min1 THEN ScanRow(i, j + 1, dist[i][j], min1)
    ELSE IF dist[i][j] < min2 THEN ScanRow(i, j + 1, min1, dist[i][j])
    ELSE ScanRow(i, j + 1, min1, min2)

cheapest1(i) ==
    LET m == ScanRow(i, 0, INT_MAX, INT_MAX)
    IN IF m[1] = INT_MAX THEN 0 ELSE m[1]

cheapest2(i) ==
    LET m == ScanRow(i, 0, INT_MAX, INT_MAX)
    IN IF m[2] = INT_MAX THEN 0 ELSE m[2]

\* the sequence of unvisited cities in the order the bit-scan
\* (__builtin_ctz, then clear lowest set bit) yields them
RECURSIVE UnvisitedFrom(_, _)
UnvisitedFrom(mask, i) ==
    IF i >= N THEN << >>
    ELSE IF Bit(mask, i) = 0 THEN << i >> \o UnvisitedFrom(mask, i + 1)
    ELSE UnvisitedFrom(mask, i + 1)

Unvisited(mask) == UnvisitedFrom(mask, 0)

\* mutation: each unvisited city counts with both its cheapest edges whole
RECURSIVE SumHalfEdges_Whole(_)
SumHalfEdges_Whole(cs) ==
    IF cs = << >> THEN 0
    ELSE (cheapest1(Head(cs)) + cheapest2(Head(cs)))
         + SumHalfEdges_Whole(Tail(cs))

RECURSIVE SumHalfEdges(_)
SumHalfEdges(cs) ==
    IF cs = << >> THEN 0
    ELSE ((cheapest1(Head(cs)) + cheapest2(Head(cs))) \div 2)
         + SumHalfEdges(Tail(cs))

lower_bound_2edge(cost, mask) == cost + SumHalfEdges(Unvisited(mask))

\* mutation: the update takes out the half-edge term of prev_city
incremental_lower_bound_HalfOfPrev(parent_lb, prev_city, cur_city) ==
    parent_lb + dist[prev_city][cur_city]
    - ((cheapest1(prev_city) + cheapest2(prev_city)) \div 2)

\* mutation: the update forgets to take out the half-edge term of cur_city
incremental_lower_bound_NoSubtract(parent_lb, prev_city, cur_city) ==
    parent_lb + dist[prev_city][cur_city]

incremental_lower_bound(parent_lb, prev_city, cur_city) ==
    parent_lb + dist[prev_city][cur_city]
    - ((cheapest1(cur_city) + cheapest2(cur_city)) \div 2)

(* ------------------------------------------------------------------ *)
(* DFS engine (stable_hybrid_dfs)                                      *)
(* ------------------------------------------------------------------ *)
Swap(s, i, j) == [s EXCEPT ![i] = s[j], ![j] = s[i]]

\* mutation: the exchange sort puts the dearest edge first
RECURSIVE SortInner_Descending(_, _, _, _)
SortInner_Descending(children, city, i, j) ==
    IF j > Len(children) THEN children
    ELSE IF dist[city][children[i]] < dist[city][children[j]]
         THEN SortInner_Descending(Swap(children, i, j), city, i, j + 1)
         ELSE SortInner_Descending(children, city, i, j + 1)

\* the exchange sort of the children by dist[n.city][.]
RECURSIVE SortInner(_, _, _, _)
SortInner(children, city, i, j) ==
    IF j > Len(children) THEN children
    ELSE IF dist[city][children[i]] > dist[city][children[j]]
         THEN SortInner(Swap(children, i, j), city, i, j + 1)
         ELSE SortInner(children, city, i, j + 1)

RECURSIVE SortOuter(_, _, _)
SortOuter(children, city, i) ==
    IF i >= Len(children) THEN children
    ELSE SortOuter(SortInner(children, city, i, i + 1), city, i + 1)

SortChildren(children, city) == SortOuter(children, city, 1)

\* a child survives the three tests of the push loop
ChildSurvives(n, next, current_best) ==
    LET new_cost == n.cost + dist[n.city][next]
        new_lb == incremental_lower_bound(n.parent_lb, n.city, next)
    IN /\ ~(new_cost >= current_best)
       /\ ~(new_lb >= current_best)
       /\ ~(n.depth = N - 1 /\ new_cost + dist[next][0] >= current_best)

\* mutation: the child keeps the cost of its parent
ChildNode_StaleCost(n, next) ==
    [city |-> next,
     depth |-> n.depth + 1,
     cost |-> n.cost,
     visitedMask |-> SetBit(n.visitedMask, next),
     path |-> Append(n.path, next),
     parent_lb |-> incremental_lower_bound(n.parent_lb, n.city, next)]

ChildNode(n, next) ==
    [city |-> next,
     depth |-> n.depth + 1,
     cost |-> n.cost + dist[n.city][next],
     visitedMask |-> SetBit(n.visitedMask, next),
     path |-> Append(n.path, next),
     parent_lb |-> incremental_lower_bound(n.parent_lb, n.city, next)]

\* the push loop: c runs from child_count-1 down to 0 (here Len down to 1)
RECURSIVE PushChildren(_, _, _, _, _)
PushChildren(stk, n, children, c, current_best) ==
    IF c < 1 THEN stk
    ELSE IF ~ChildSurvives(n, children[c], current_best)
         THEN PushChildren(stk, n, children, c - 1, current_best)
    ELSE IF Len(stk) >= init_cap - 1
         THEN PushChildren(stk, n, children, c - 1, current_best)
    ELSE PushChildren(Append(stk, ChildNode(n, children[c])), n, children,
                      c - 1, current_best)

\* mutation: the popped node is put back on the stack
Expand_Repush(stk, n, current_best) == Append(stk, n)

\* mutation: the push loop runs twice over the children
Expand_Twice(stk, n, current_best) ==
    LET children == SortChildren(Unvisited(n.visitedMask), n.city)
    IN PushChildren(PushChildren(stk, n, children, Len(children), current_best),
                    n, children, Len(children), current_best)

Expand(stk, n, current_best) ==
    LET children == SortChildren(Unvisited(n.visitedMask), n.city)
    IN PushChildren(stk, n, children, Len(children), current_best)

\* mutation: a node is discarded already when its bound is one below the best
Pruned_OneBelow(n, current_best) ==
    n.cost >= current_best \/ n.parent_lb + 1 >= current_best

\* the pruning test on a popped node
Pruned(n, current_best) ==
    n.cost >= current_best \/ n.parent_lb >= current_best

\* the pop of the top node of stk leaves out a child that passed every
\* pruning test, because of the test sp >= MAX_STACK_SIZE - 1: the stack
\* only grows during the push loop, so a child is left out exactly when
\* the surviving children do not all fit below that mark
DropsChild(stk, current_best) ==
    LET n == stk[Len(stk)]
    IN /\ ~Pruned(n, current_best)
       /\ n.depth # N
       /\ (Len(stk) - 1) +
             Cardinality({ c \in Cities : /\ Bit(n.visitedMask, c) = 0
                                          /\ ChildSurvives(n, c, current_best) })
             > init_cap - 1

\* Task -> Node conversion at the head of the parallel region
SeedNode(task) ==
    [city |-> task.city,
     depth |-> task.depth,
     cost |-> task.cost,
     visitedMask |-> task.visitedMask,
     path |-> SubSeq(task.path, 1, task.depth),
     parent_lb |-> lower_bound_2edge(task.cost, task.visitedMask)]

\* mutation: tasks_per_thread rounds down
ThreadSeeds_RoundsDown(tasks, thread_id, num_threads) ==
    LET num_tasks == Len(tasks)
        tasks_per_thread == num_tasks \div num_threads
        thread_start == thread_id * tasks_per_thread
        thread_end == IF thread_start + tasks_per_thread > num_tasks
                      THEN num_tasks
                      ELSE thread_start + tasks_per_thread
    IN [k \in 1 .. (IF thread_end > thread_start
                    THEN thread_end - thread_start ELSE 0)
          |-> SeedNode(tasks[thread_start + k])]

\* the contiguous share of the seeds that thread thread_id pushes
ThreadSeeds(tasks, thread_id, num_threads) ==
    LET num_tasks == Len(tasks)
        tasks_per_thread == (num_tasks + num_threads - 1) \div num_threads
        thread_start == thread_id * tasks_per_thread
        thread_end == IF thread_start + tasks_per_thread > num_tasks
                      THEN num_tasks
                      ELSE thread_start + tasks_per_thread
    IN [k \in 1 .. (IF thread_end > thread_start
                    THEN thread_end - thread_start ELSE 0)
          |-> SeedNode(tasks[thread_start + k])]

(* ------------------------------------------------------------------ *)
(* Seeding (stable_distributed_search)                                 *)
(* ------------------------------------------------------------------ *)
\* mutation: the start index ignores the extra tasks of the lower ranks
my_start_NoOffset(rank, world) ==
    rank * ((N - 1) \div world)

my_start(rank, world) ==
    LET total_tasks == N - 1
        base_tasks == total_tasks \div world
        extra_tasks == total_tasks % world
    IN rank * base_tasks + (IF rank < extra_tasks THEN rank ELSE extra_tasks)

\* mutation: the ranks below extra_tasks do not get their extra task
my_end_NoExtra(rank, world) ==
    my_start(rank, world) + ((N - 1) \div world)

my_end(rank, world) ==
    LET total_tasks == N - 1
        base_tasks == total_tasks \div world
        extra_tasks == total_tasks % world
    IN my_start(rank, world) + base_tasks
       + (IF rank < extra_tasks THEN 1 ELSE 0)

SeedTask(city) ==
    [depth |-> 2,
     cost |-> dist[0][city],
     city |-> city,
     visitedMask |-> Pow2(0) + Pow2(city),
     path |-> << 0, city >>]

SeedTasks(rank, world) ==
    [k \in 1 .. (IF my_end(rank, world) > my_start(rank, world)
                 THEN my_end(rank, world) - my_start(rank, world) ELSE 0)
       |-> SeedTask(my_start(rank, world) + (k - 1) + 1)]

(* ------------------------------------------------------------------ *)
(* Inputs                                                              *)
(* ------------------------------------------------------------------ *)
\* entry (i, j), i < j, of the k-th generated symmetric instance
GenEdge(i, j, k) ==
    ((k + 1) * (i + 2 * j) + k * i * j + (k \div 2)) % (MaxDist + 1)

GenMatrix(n, k) ==
    [i \in 0 .. (n - 1) |->
        [j \in 0 .. (n - 1) |->
            IF i = j THEN 0
            ELSE IF i < j THEN GenEdge(i, j, k) ELSE GenEdge(j, i, k)]]

\* a matrix written as a tuple of rows, re-indexed from 0
FromRows(rows) ==
    [i \in 0 .. (Len(rows) - 1) |->
        [j \in 0 .. (Len(rows) - 1) |-> rows[i + 1][j + 1]]]

\* the three end-to-end scenarios with a search (3, 4 and 5 cities)
ScenarioMatrices(n) ==
    IF n = 3 THEN { FromRows(<< <<0, 1, 2>>, <<1, 0, 3>>, <<2, 3, 0>> >>) }
    ELSE IF n = 4 THEN { FromRows(<< <<0, 10, 15, 20>>, <<10, 0, 35, 25>>,
                                     <<15, 35, 0, 30>>, <<20, 25, 30, 0>> >>) }
    ELSE IF n = 5 THEN { FromRows(<< <<0, 2, 9, 10, 7>>, <<2, 0, 6, 4, 3>>,
                                     <<9, 6, 0, 8, 5>>, <<10, 4, 8, 0, 6>>,
                                     <<7, 3, 5, 6, 0>> >>) }
    ELSE { }

Instances(n) == { GenMatrix(n, k) : k \in 0 .. MaxInst } \cup ScenarioMatrices(n)

(* ------------------------------------------------------------------ *)
(* Initial state: after MPI_Bcast of N and dist, the bound             *)
(* precomputation, best_cost = INT_MAX and memset(best_path, 0)        *)
(* ------------------------------------------------------------------ *)
NoLeaf == [path |-> << >>, tour_cost |-> 0]

NoOutput == [printed |-> FALSE, cost |-> 0, has_path |-> FALSE, path |-> << >>]

NoTask == [depth |-> 0, cost |-> 0, city |-> 0, visitedMask |-> 0, path |-> << >>]

NoReply == [tag |-> "none", task |-> NoTask]

\* no file: the state is one after the load
\* no bound function has been called
NoBounds == [called |-> FALSE, a |-> 0, fast |-> 0, b |-> 0]

NoFile == [has_n |-> FALSE, n |-> 0, nums |-> << >>]

\* a run on n in ns cities with w in ws ranks of t in ts threads each;
\* inputs[n] is the set of n-city matrices a run may be given
HybridStartFor(slots, ns, ws, ts, inputs) ==
    \E n \in ns, w \in ws, t \in ts :
      \E d \in inputs[n] :
        /\ N = n
        /\ W = w
        /\ T = t
        /\ dist = d
        /\ rpc = [r \in 0 .. (w - 1) |-> "start"]
        /\ my_tasks = [r \in 0 .. (w - 1) |-> << >>]
        /\ stack = [r \in 0 .. (w - 1) |-> [k \in 0 .. (t - 1) |-> << >>]]
        /\ tpc = [r \in 0 .. (w - 1) |-> [k \in 0 .. (t - 1) |-> "idle"]]
        /\ cur = [r \in 0 .. (w - 1) |-> [k \in 0 .. (t - 1) |-> NoLeaf]]
        /\ lock = [r \in 0 .. (w - 1) |-> NoThread]
        /\ best_cost = [r \in 0 .. (w - 1) |-> INT_MAX]
        /\ best_path = [r \in 0 .. (w - 1) |-> [i \in 0 .. n |-> 0]]
        /\ contrib = [r \in 0 .. (w - 1) |-> NoValue]
        /\ global_best = [r \in 0 .. (w - 1) |-> NoValue]
        /\ chan = [r \in 0 .. (w - 1) |-> << >>]
        /\ src = 0
        /\ their_cost = NoValue
        /\ best_path_to_show = [i \in 0 .. n |-> 0]
        /\ output = NoOutput
        /\ queue = << >>
        /\ done = 0
        /\ reqs = { }
        /\ reply = [r \in 0 .. (w - 1) |-> NoReply]
        /\ expansions = [r \in 0 .. (w - 1) |-> 0]
        /\ init_cap = slots
        /\ cap = [r \in 0 .. (w - 1) |-> 0]
        /\ dropped = FALSE
        /\ file = NoFile
        /\ lbs = NoBounds

HybridStartOn(slots, inputs) ==
    HybridStartFor(slots, 1 .. MaxN, 1 .. MaxW, 1 .. MaxT, inputs)

\* a run on a symmetric instance
HybridStart(slots) == HybridStartOn(slots, [n \in 1 .. MaxN |-> Instances(n)])

\* the program as built: MAX_STACK_SIZE slots per thread
Init == HybridStart(MAX_STACK_SIZE)

(* ------------------------------------------------------------------ *)
(* Search phase                                                        *)
(* ------------------------------------------------------------------ *)
\* mutation: a rank without tasks leaves out the reduction
stable_distributed_search_EmptySkipsReduce(r) ==
    /\ rpc[r] = "start"
    /\ my_tasks' = [my_tasks EXCEPT ![r] = SeedTasks(r, W)]
    /\ IF Len(SeedTasks(r, W)) = 0
       THEN /\ rpc' = [rpc EXCEPT ![r] = "gather"]
            /\ UNCHANGED << stack, tpc >>
       ELSE /\ rpc' = [rpc EXCEPT ![r] = "search"]
            /\ stack' = [stack EXCEPT ![r] =
                           [t \in Threads |-> ThreadSeeds(SeedTasks(r, W), t, T)]]
            /\ tpc' = [tpc EXCEPT ![r] = [t \in Threads |-> "loop"]]
    /\ UNCHANGED v1vars
    /\ UNCHANGED memvars
    /\ UNCHANGED << lbs, file, N, W, T, dist, cur, lock, best_cost, best_path, contrib,
                    global_best, chan, src, their_cost, best_path_to_show,
                    output >>

\* stable_distributed_search up to the head of the parallel region:
\* build my_tasks; with no task stable_hybrid_dfs returns at once,
\* otherwise every thread converts its share of the tasks to stack nodes
stable_distributed_search(r) ==
    /\ rpc[r] = "start"
    /\ my_tasks' = [my_tasks EXCEPT ![r] = SeedTasks(r, W)]
    /\ IF Len(SeedTasks(r, W)) = 0
       THEN /\ rpc' = [rpc EXCEPT ![r] = "allreduce"]
            /\ UNCHANGED << stack, tpc >>
       ELSE /\ rpc' = [rpc EXCEPT ![r] = "search"]
            /\ stack' = [stack EXCEPT ![r] =
                           [t \in Threads |-> ThreadSeeds(SeedTasks(r, W), t, T)]]
            /\ tpc' = [tpc EXCEPT ![r] = [t \in Threads |-> "loop"]]
    /\ UNCHANGED v1vars
    /\ UNCHANGED memvars
    /\ UNCHANGED << lbs, file, N, W, T, dist, cur, lock, best_cost, best_path, contrib,
                    global_best, chan, src, their_cost, best_path_to_show,
                    output >>

\* one iteration of the main DFS loop up to the critical section:
\* pop, read best_cost, prune, close a tour or expand
PopNode(r, t) ==
    /\ rpc[r] = "search"
    /\ tpc[r][t] = "loop"
    /\ Len(stack[r][t]) > 0
    /\ LET sp == Len(stack[r][t])
           n == stack[r][t][sp]
           rest == SubSeq(stack[r][t], 1, sp - 1)
           current_best == best_cost[r]
           tour_cost == n.cost + dist[n.city][0]
       IN IF Pruned(n, current_best)
          THEN /\ stack' = [stack EXCEPT ![r][t] = rest]
               /\ UNCHANGED << tpc, cur >>
          ELSE IF n.depth = N
          THEN /\ stack' = [stack EXCEPT ![r][t] = rest]
               /\ IF tour_cost < current_best
                  THEN /\ tpc' = [tpc EXCEPT ![r][t] = "critical"]
                       /\ cur' = [cur EXCEPT ![r][t] =
                                    [path |-> n.path, tour_cost |-> tour_cost]]
                  ELSE UNCHANGED << tpc, cur >>
          ELSE /\ stack' = [stack EXCEPT ![r][t] = Expand(rest, n, current_best)]
               /\ UNCHANGED << tpc, cur >>
    /\ dropped' = (dropped \/ DropsChild(stack[r][t], best_cost[r]))
    /\ UNCHANGED << init_cap, cap >>
    /\ UNCHANGED v1vars
    /\ UNCHANGED << lbs, file, N, W, T, dist, rpc, my_tasks, lock, best_cost, best_path,
                    contrib, global_best, chan, src, their_cost,
                    best_path_to_show, output >>

\* mutation: the commit writes without re-checking best_cost in the section
EnterCritical_NoRecheck(r, t) ==
    /\ rpc[r] = "search"
    /\ tpc[r][t] = "critical"
    /\ lock[r] = NoThread
    /\ best_cost' = [best_cost EXCEPT ![r] = cur[r][t].tour_cost]
    /\ lock' = [lock EXCEPT ![r] = t]
    /\ tpc' = [tpc EXCEPT ![r][t] = "write_path"]
    /\ UNCHANGED v1vars
    /\ UNCHANGED memvars
    /\ UNCHANGED << lbs, file, N, W, T, dist, rpc, my_tasks, stack, cur, best_path,
                    contrib, global_best, chan, src, their_cost,
                    best_path_to_show, output >>

\* mutation: best_cost is written outside any critical section
EnterCritical_NoLock(r, t) ==
    /\ rpc[r] = "search"
    /\ tpc[r][t] = "critical"
    /\ IF cur[r][t].tour_cost < best_cost[r]
       THEN /\ best_cost' = [best_cost EXCEPT ![r] = cur[r][t].tour_cost]
            /\ tpc' = [tpc EXCEPT ![r][t] = "write_path"]
            /\ UNCHANGED cur
       ELSE /\ tpc' = [tpc EXCEPT ![r][t] = "loop"]
            /\ cur' = [cur EXCEPT ![r][t] = NoLeaf]
            /\ UNCHANGED best_cost
    /\ UNCHANGED v1vars
    /\ UNCHANGED memvars
    /\ UNCHANGED << lbs, file, N, W, T, dist, rpc, my_tasks, stack, lock, best_path,
                    contrib, global_best, chan, src, their_cost,
                    best_path_to_show, output >>

\* enter the omp critical section, re-check and write best_cost
EnterCritical(r, t) ==
    /\ rpc[r] = "search"
    /\ tpc[r][t] = "critical"
    /\ lock[r] = NoThread
    /\ IF cur[r][t].tour_cost < best_cost[r]
       THEN /\ best_cost' = [best_cost EXCEPT ![r] = cur[r][t].tour_cost]
            /\ lock' = [lock EXCEPT ![r] = t]
            /\ tpc' = [tpc EXCEPT ![r][t] = "write_path"]
            /\ UNCHANGED cur
       ELSE /\ tpc' = [tpc EXCEPT ![r][t] = "loop"]
            /\ cur' = [cur EXCEPT ![r][t] = NoLeaf]
            /\ UNCHANGED << best_cost, lock >>
    /\ UNCHANGED v1vars
    /\ UNCHANGED memvars
    /\ UNCHANGED << lbs, file, N, W, T, dist, rpc, my_tasks, stack, best_path, contrib,
                    global_best, chan, src, their_cost, best_path_to_show,
                    output >>

\* memcpy(best_path, n.path, N), best_path[N] = 0, leave the section
WritePath(r, t) ==
    /\ rpc[r] = "search"
    /\ tpc[r][t] = "write_path"
    /\ lock[r] = t
    /\ best_path' = [best_path EXCEPT ![r] =
                       [i \in 0 .. N |->
                          IF i < N THEN cur[r][t].path[i + 1] ELSE 0]]
    /\ lock' = [lock EXCEPT ![r] = NoThread]
    /\ tpc' = [tpc EXCEPT ![r][t] = "loop"]
    /\ cur' = [cur EXCEPT ![r][t] = NoLeaf]
    /\ UNCHANGED v1vars
    /\ UNCHANGED memvars
    /\ UNCHANGED << lbs, file, N, W, T, dist, rpc, my_tasks, stack, best_cost, contrib,
                    global_best, chan, src, their_cost, best_path_to_show,
                    output >>

\* mutation: the parallel region ends as soon as one thread has left its loop
JoinThreads_FirstDone(r) ==
    /\ rpc[r] = "search"
    /\ \E t \in Threads : tpc[r][t] = "loop" /\ Len(stack[r][t]) = 0
    /\ rpc' = [rpc EXCEPT ![r] = "allreduce"]
    /\ tpc' = [tpc EXCEPT ![r] = [t \in Threads |-> "exited"]]
    /\ UNCHANGED v1vars
    /\ UNCHANGED memvars
    /\ UNCHANGED << lbs, file, N, W, T, dist, my_tasks, stack, cur, lock, best_cost,
                    best_path, contrib, global_best, chan, src, their_cost,
                    best_path_to_show, output >>

\* end of the parallel region: every thread has left its loop
JoinThreads(r) ==
    /\ rpc[r] = "search"
    /\ \A t \in Threads : tpc[r][t] = "loop" /\ Len(stack[r][t]) = 0
    /\ rpc' = [rpc EXCEPT ![r] = "allreduce"]
    /\ tpc' = [tpc EXCEPT ![r] = [t \in Threads |-> "exited"]]
    /\ UNCHANGED v1vars
    /\ UNCHANGED memvars
    /\ UNCHANGED << lbs, file, N, W, T, dist, my_tasks, stack, cur, lock, best_cost,
                    best_path, contrib, global_best, chan, src, their_cost,
                    best_path_to_show, output >>

(* ------------------------------------------------------------------ *)
(* Result reduction and path-gather (main)                             *)
(* ------------------------------------------------------------------ *)
\* a rank calls MPI_Allreduce and hands in its best_cost
AllreduceEnter(r) ==
    /\ rpc[r] = "allreduce"
    /\ contrib' = [contrib EXCEPT ![r] = best_cost[r]]
    /\ rpc' = [rpc EXCEPT ![r] = "allreduce_wait"]
    /\ UNCHANGED v1vars
    /\ UNCHANGED memvars
    /\ UNCHANGED << lbs, file, N, W, T, dist, my_tasks, stack, tpc, cur, lock, best_cost,
                    best_path, global_best, chan, src, their_cost,
                    best_path_to_show, output >>

\* MPI_MIN over the values handed in by all ranks
ReduceMin == MinOf({ contrib[q] : q \in Ranks })

\* the collective returns once every rank has called it
AllreduceExit(r) ==
    /\ rpc[r] = "allreduce_wait"
    /\ \A q \in Ranks : contrib[q] # NoValue
    /\ global_best' = [global_best EXCEPT ![r] = ReduceMin]
    /\ rpc' = [rpc EXCEPT ![r] = "gather"]
    /\ UNCHANGED v1vars
    /\ UNCHANGED memvars
    /\ UNCHANGED << lbs, file, N, W, T, dist, my_tasks, stack, tpc, cur, lock, best_cost,
                    best_path, contrib, chan, src, their_cost,
                    best_path_to_show, output >>

\* mutation: rank 0 does not look at its own solution
GatherOwn_SkipOwn ==
    /\ rpc[0] = "gather"
    /\ best_path_to_show' = best_path_to_show
    /\ src' = 1
    /\ rpc' = [rpc EXCEPT ![0] = IF 1 < W THEN "recv_cost" ELSE "print"]
    /\ UNCHANGED v1vars
    /\ UNCHANGED memvars
    /\ UNCHANGED << lbs, file, N, W, T, dist, my_tasks, stack, tpc, cur, lock, best_cost,
                    best_path, contrib, global_best, chan, their_cost, output >>

\* rank 0: copy its own path when its cost is the global best, then
\* start the loop over src = 1 .. world-1
GatherOwn ==
    /\ rpc[0] = "gather"
    /\ best_path_to_show' = IF best_cost[0] = global_best[0]
                            THEN best_path[0]
                            ELSE best_path_to_show
    /\ src' = 1
    /\ rpc' = [rpc EXCEPT ![0] = IF 1 < W THEN "recv_cost" ELSE "print"]
    /\ UNCHANGED v1vars
    /\ UNCHANGED memvars
    /\ UNCHANGED << lbs, file, N, W, T, dist, my_tasks, stack, tpc, cur, lock, best_cost,
                    best_path, contrib, global_best, chan, their_cost, output >>

\* position of the first message with the given tag in a channel (0: none)
RECURSIVE FirstWithTag(_, _, _)
FirstWithTag(ch, tag, k) ==
    IF k > Len(ch) THEN 0
    ELSE IF ch[k].tag = tag THEN k
    ELSE FirstWithTag(ch, tag, k + 1)

RemoveAt(ch, k) == SubSeq(ch, 1, k - 1) \o SubSeq(ch, k + 1, Len(ch))

\* rank 0: MPI_Recv(&their_cost, ..., src, 99, ...)
RecvCost ==
    /\ rpc[0] = "recv_cost"
    /\ FirstWithTag(chan[src], TAG_COST_MSG, 1) # 0
    /\ LET k == FirstWithTag(chan[src], TAG_COST_MSG, 1)
       IN /\ their_cost' = chan[src][k].cost
          /\ chan' = [chan EXCEPT ![src] = RemoveAt(chan[src], k)]
    /\ rpc' = [rpc EXCEPT ![0] = "recv_path"]
    /\ UNCHANGED v1vars
    /\ UNCHANGED memvars
    /\ UNCHANGED << lbs, file, N, W, T, dist, my_tasks, stack, tpc, cur, lock, best_cost,
                    best_path, contrib, global_best, src, best_path_to_show,
                    output >>

\* mutation: the received path is kept whatever their_cost is
RecvPath_KeepAlways ==
    /\ rpc[0] = "recv_path"
    /\ FirstWithTag(chan[src], TAG_PATH_MSG, 1) # 0
    /\ LET k == FirstWithTag(chan[src], TAG_PATH_MSG, 1)
       IN /\ best_path_to_show' = chan[src][k].path
          /\ chan' = [chan EXCEPT ![src] = RemoveAt(chan[src], k)]
    /\ src' = src + 1
    /\ rpc' = [rpc EXCEPT ![0] = IF src + 1 < W THEN "recv_cost" ELSE "print"]
    /\ UNCHANGED v1vars
    /\ UNCHANGED memvars
    /\ UNCHANGED << lbs, file, N, W, T, dist, my_tasks, stack, tpc, cur, lock, best_cost,
                    best_path, contrib, global_best, their_cost, output >>

\* mutation: a received path is kept only while no path has been accepted
\* from rank 0 or from a lower source rank
RecvPath_KeepFirst ==
    /\ rpc[0] = "recv_path"
    /\ FirstWithTag(chan[src], TAG_PATH_MSG, 1) # 0
    /\ LET k == FirstWithTag(chan[src], TAG_PATH_MSG, 1)
       IN /\ best_path_to_show' =
                IF /\ their_cost = global_best[0]
                   /\ \A q \in 0 .. (src - 1) : best_cost[q] # global_best[0]
                THEN chan[src][k].path
                ELSE best_path_to_show
          /\ chan' = [chan EXCEPT ![src] = RemoveAt(chan[src], k)]
    /\ src' = src + 1
    /\ rpc' = [rpc EXCEPT ![0] = IF src + 1 < W THEN "recv_cost" ELSE "print"]
    /\ UNCHANGED v1vars
    /\ UNCHANGED memvars
    /\ UNCHANGED << lbs, file, N, W, T, dist, my_tasks, stack, tpc, cur, lock, best_cost,
                    best_path, contrib, global_best, their_cost, output >>

\* mutation: the path message is received only when their_cost is the
\* global best
RecvPath_OnlyIfBest ==
    /\ rpc[0] = "recv_path"
    /\ IF their_cost = global_best[0]
       THEN /\ FirstWithTag(chan[src], TAG_PATH_MSG, 1) # 0
            /\ LET k == FirstWithTag(chan[src], TAG_PATH_MSG, 1)
               IN /\ best_path_to_show' = chan[src][k].path
                  /\ chan' = [chan EXCEPT ![src] = RemoveAt(chan[src], k)]
       ELSE UNCHANGED << best_path_to_show, chan >>
    /\ src' = src + 1
    /\ rpc' = [rpc EXCEPT ![0] = IF src + 1 < W THEN "recv_cost" ELSE "print"]
    /\ UNCHANGED v1vars
    /\ UNCHANGED memvars
    /\ UNCHANGED << lbs, file, N, W, T, dist, my_tasks, stack, tpc, cur, lock, best_cost,
                    best_path, contrib, global_best, their_cost, output >>

\* rank 0: MPI_Recv(their_path, N + 1, ..., src, 100, ...) in either
\* branch; the path is kept only when their_cost == global_best
RecvPath ==
    /\ rpc[0] = "recv_path"
    /\ FirstWithTag(chan[src], TAG_PATH_MSG, 1) # 0
    /\ LET k == FirstWithTag(chan[src], TAG_PATH_MSG, 1)
       IN /\ best_path_to_show' = IF their_cost = global_best[0]
                                  THEN chan[src][k].path
                                  ELSE best_path_to_show
          /\ chan' = [chan EXCEPT ![src] = RemoveAt(chan[src], k)]
    /\ src' = src + 1
    /\ rpc' = [rpc EXCEPT ![0] = IF src + 1 < W THEN "recv_cost" ELSE "print"]
    /\ UNCHANGED v1vars
    /\ UNCHANGED memvars
    /\ UNCHANGED << lbs, file, N, W, T, dist, my_tasks, stack, tpc, cur, lock, best_cost,
                    best_path, contrib, global_best, their_cost, output >>

\* rank != 0: MPI_Send(&best_cost, 1, MPI_INT, 0, 99, ...)
SendCost(r) ==
    /\ r # 0
    /\ rpc[r] = "gather"
    /\ chan' = [chan EXCEPT ![r] = Append(chan[r],
                  [tag |-> TAG_COST_MSG, cost |-> best_cost[r],
                   path |-> best_path[r]])]
    /\ rpc' = [rpc EXCEPT ![r] = "send_path"]
    /\ UNCHANGED v1vars
    /\ UNCHANGED memvars
    /\ UNCHANGED << lbs, file, N, W, T, dist, my_tasks, stack, tpc, cur, lock, best_cost,
                    best_path, contrib, global_best, src, their_cost,
                    best_path_to_show, output >>

\* rank != 0: MPI_Send(best_path, N + 1, MPI_INT, 0, 100, ...)
SendPath(r) ==
    /\ r # 0
    /\ rpc[r] = "send_path"
    /\ chan' = [chan EXCEPT ![r] = Append(chan[r],
                  [tag |-> TAG_PATH_MSG, cost |-> NoValue,
                   path |-> best_path[r]])]
    /\ rpc' = [rpc EXCEPT ![r] = "finalize"]
    /\ UNCHANGED v1vars
    /\ UNCHANGED memvars
    /\ UNCHANGED << lbs, file, N, W, T, dist, my_tasks, stack, tpc, cur, lock, best_cost,
                    best_path, contrib, global_best, src, their_cost,
                    best_path_to_show, output >>

\* rank 0: the two printf blocks
PrintResult ==
    /\ rpc[0] = "print"
    /\ output' = [printed |-> TRUE,
                  cost |-> global_best[0],
                  has_path |-> global_best[0] < INT_MAX,
                  path |-> IF global_best[0] < INT_MAX
                           THEN [k \in 1 .. (N + 1) |-> best_path_to_show[k - 1]]
                           ELSE << >>]
    /\ rpc' = [rpc EXCEPT ![0] = "finalize"]
    /\ UNCHANGED v1vars
    /\ UNCHANGED memvars
    /\ UNCHANGED << lbs, file, N, W, T, dist, my_tasks, stack, tpc, cur, lock, best_cost,
                    best_path, contrib, global_best, chan, src, their_cost,
                    best_path_to_show >>

\* MPI_Finalize; return 0
Finalize(r) ==
    /\ rpc[r] = "finalize"
    /\ rpc' = [rpc EXCEPT ![r] = "done"]
    /\ UNCHANGED v1vars
    /\ UNCHANGED memvars
    /\ UNCHANGED << lbs, file, N, W, T, dist, my_tasks, stack, tpc, cur, lock, best_cost,
                    best_path, contrib, global_best, chan, src, their_cost,
                    best_path_to_show, output >>

(* ------------------------------------------------------------------ *)
(* Specification of the hybrid solver                                  *)
(*                                                                     *)
(* Ranks share no memory and exchange no message before MPI_Allreduce, *)
(* so the steps of different ranks' searches commute.  The search      *)
(* phases are therefore scheduled in rank order (a rank searches once  *)
(* all lower ranks have left the parallel region); the threads of a    *)
(* rank and all steps from MPI_Allreduce on interleave freely.         *)
(* ------------------------------------------------------------------ *)
SearchTurn(r) == \A q \in Ranks : q < r => rpc[q] \notin { "start", "search" }

SearchStep(r) ==
    \/ stable_distributed_search(r)
    \/ \E t \in Threads : PopNode(r, t)
    \/ \E t \in Threads : EnterCritical(r, t)
    \/ \E t \in Threads : WritePath(r, t)
    \/ JoinThreads(r)

Next ==
    \/ \E r \in Ranks : SearchTurn(r) /\ SearchStep(r)
    \/ \E r \in Ranks : AllreduceEnter(r)
    \/ \E r \in Ranks : AllreduceExit(r)
    \/ GatherOwn
    \/ RecvCost
    \/ RecvPath
    \/ \E r \in Ranks : SendCost(r)
    \/ \E r \in Ranks : SendPath(r)
    \/ PrintResult
    \/ \E r \in Ranks : Finalize(r)

Spec == Init /\ [][Next]_vars

(* ------------------------------------------------------------------ *)
(* Reference definitions used by the properties                        *)
(* ------------------------------------------------------------------ *)
\* all orderings of a finite set, as sequences
RECURSIVE Perms(_)
Perms(S) ==
    IF S = { } THEN { << >> }
    ELSE UNION { { << x >> \o p : p \in Perms(S \ { x }) } : x \in S }

\* sum of dist over the consecutive edges of a sequence of cities
RECURSIVE EdgeSum(_)
EdgeSum(p) ==
    IF Len(p) < 2 THEN 0
    ELSE dist[p[1]][p[2]] + EdgeSum(Tail(p))

\* the Hamiltonian cycles from city 0 back to city 0
AllTours == { << 0 >> \o p \o << 0 >> : p \in Perms(1 .. (N - 1)) }

\* brute-force optimum
Optimum == MinOf({ EdgeSum(tour) : tour \in AllTours })

\* a sequence of N+1 cities that starts and ends at 0 and holds every
\* city exactly once in its first N positions
IsTour(p) ==
    /\ Len(p) = N + 1
    /\ p[1] = 0
    /\ p[N + 1] = 0
    /\ \A c \in Cities : Cardinality({ k \in 1 .. N : p[k] = c }) = 1

PathSeq(bp) == [k \in 1 .. (N + 1) |-> bp[k - 1]]

\* the single-threaded run of the DFS loop on a stack, from a best cost
RECURSIVE SeqDfs(_, _)
SeqDfs(stk, best) ==
    IF Len(stk) = 0 THEN best
    ELSE LET n == stk[Len(stk)]
             rest == SubSeq(stk, 1, Len(stk) - 1)
             tour_cost == n.cost + dist[n.city][0]
         IN IF Pruned(n, best) THEN SeqDfs(rest, best)
            ELSE IF n.depth = N
                 THEN SeqDfs(rest, IF tour_cost < best THEN tour_cost ELSE best)
            ELSE SeqDfs(Expand(rest, n, best), best)

\* positions of main
Searched(r) == rpc[r] \notin { "start", "search" }

(* ------------------------------------------------------------------ *)
(* Properties of the hybrid solver                                     *)
(* ------------------------------------------------------------------ *)

\* C1: for N >= 2 the cost rank 0 prints equals the minimum cost over all
\* Hamiltonian cycles through city 0, for every W and T.
C1_Optimality ==
    (output.printed /\ N >= 2) => output.cost = Optimum

\* the four-city scenario solved with several ranks and threads
C1_Witness ==
    /\ output.printed
    /\ N = 4
    /\ W >= 2
    /\ T >= 2
    /\ dist[1][2] = 35
    /\ output.cost = 80

\* C2: whenever the printed cost is below the sentinel, the printed path is
\* a tour from 0 to 0 through every city once, and its edge sum is the
\* printed cost.
C2_EmittedPathValid ==
    (output.printed /\ output.cost < INT_MAX) =>
        /\ output.has_path
        /\ IsTour(output.path)
        /\ EdgeSum(output.path) = output.cost

\* a path printed by rank 0 that was found by another rank
C2_Witness ==
    /\ output.printed
    /\ output.cost < INT_MAX
    /\ N >= 3
    /\ best_cost[0] # output.cost
    /\ IsTour(output.path)

\* the ranks whose local best cost equals the reduced minimum
TyingRanks == { r \in Ranks : best_cost[r] = global_best[0] }

MaxOf(S) == CHOOSE x \in S : \A y \in S : y <= x

\* C3 (as claimed): when several ranks hold the global best, the printed
\* path is the best_path of the lowest-ranked of them.
C3_LowestTyingRank ==
    (output.printed /\ output.has_path) =>
        output.path = PathSeq(best_path[MinOf(TyingRanks)])

\* C3 (amended): the printed path is the best_path of the highest-ranked
\* worker whose local best equals global_best, since every later match in
\* the loop over src overwrites best_path_to_show.
C3_HighestTyingRank ==
    (output.printed /\ output.has_path) =>
        output.path = PathSeq(best_path[MaxOf(TyingRanks)])

\* three ranks, two of them tie with different paths, rank 0 among them
C3_Witness ==
    /\ output.printed
    /\ output.has_path
    /\ Cardinality(TyingRanks) >= 2
    /\ 0 \in TyingRanks
    /\ best_path[MinOf(TyingRanks)] # best_path[MaxOf(TyingRanks)]
    /\ output.path = PathSeq(best_path[MaxOf(TyingRanks)])

\* the cost a run with one rank and one thread reports: all N-1 seeds on
\* one stack, searched by the sequential loop
SingleRankResult ==
    LET tasks == [k \in 1 .. (N - 1) |-> SeedTask(k)]
    IN SeqDfs([k \in 1 .. (N - 1) |-> SeedNode(tasks[k])], INT_MAX)

\* C4: the printed cost is the same for every world size: it equals the
\* cost of the run with a single rank and a single thread on the same input.
C4_RankIndependence ==
    output.printed => output.cost = SingleRankResult

\* a run with several ranks, one of them holding two seeds, that printed a cost
C4_Witness ==
    /\ output.printed
    /\ W >= 2
    /\ N >= 3
    /\ \E r \in Ranks : Len(my_tasks[r]) >= 2
    /\ output.cost = SingleRankResult
    /\ output.cost < INT_MAX

\* the best cost one thread computes on the seeds of rank r
SingleThreadResult(r) ==
    SeqDfs(ThreadSeeds(my_tasks[r], 0, 1), INT_MAX)

\* C5: once the threads of a rank have left the parallel region, the rank's
\* best_cost equals the value a single thread computes on the same seeds,
\* for every T and every interleaving.
C5_ThreadIndependence ==
    \A r \in Ranks : Searched(r) => best_cost[r] = SingleThreadResult(r)

\* a rank whose two threads both searched seeds and which found a tour
C5_Witness ==
    \E r \in Ranks :
        /\ Searched(r)
        /\ T >= 2
        /\ Len(ThreadSeeds(my_tasks[r], 0, T)) >= 1
        /\ Len(ThreadSeeds(my_tasks[r], 1, T)) >= 1
        /\ best_cost[r] < INT_MAX
        /\ best_cost[r] = SingleThreadResult(r)

\* the positions of main at which a rank reads best_path (memcpy into
\* best_path_to_show, MPI_Send of the path)
ReadsBestPath(r) == rpc[r] \in { "gather", "send_path" }

\* C7: whenever no thread of a rank is inside the commit section, the
\* rank's best_cost is the sentinel or best_path is a tour through city 0
\* whose cost is best_cost; and best_path is read only when no thread is
\* inside the section.
C7_CellConsistent ==
    \A r \in Ranks :
        /\ lock[r] = NoThread =>
              \/ best_cost[r] = INT_MAX
              \/ /\ IsTour(PathSeq(best_path[r]))
                 /\ EdgeSum(PathSeq(best_path[r])) = best_cost[r]
        /\ ReadsBestPath(r) =>
              /\ lock[r] = NoThread
              /\ \A t \in Threads : tpc[r][t] \notin { "critical", "write_path" }

\* a second, better tour has been committed while another thread of the
\* rank is still searching
C7_Witness ==
    \E r \in Ranks : \E t \in Threads :
        /\ rpc[r] = "search"
        /\ lock[r] = NoThread
        /\ best_cost[r] < INT_MAX
        /\ EdgeSum(PathSeq(best_path[r])) = best_cost[r]
        /\ tpc[r][t] = "critical"
        /\ cur[r][t].tour_cost < best_cost[r]

\* C8 (as claimed): with N = 1 the solver prints cost 0 and the path 0 0.
C8_SingleCity ==
    (output.printed /\ N = 1) =>
        /\ output.cost = 0
        /\ output.has_path
        /\ output.path = << 0, 0 >>

\* C9: with N = 2 the solver prints D[0][1] + D[1][0] and the path 0 1 0.
C9_TwoCities ==
    (output.printed /\ N = 2) =>
        /\ output.cost = dist[0][1] + dist[1][0]
        /\ output.has_path
        /\ output.path = << 0, 1, 0 >>

\* two cities, several ranks and threads, result printed
C9_Witness ==
    /\ output.printed
    /\ N = 2
    /\ W >= 2
    /\ T >= 2
    /\ dist[0][1] > 0
    /\ output.path = << 0, 1, 0 >>

(* ------------------------------------------------------------------ *)
(* Seeding alone, for instances of up to MaxSeedN cities on up to      *)
(* MaxSeedW ranks: every rank runs stable_distributed_search up to the *)
(* head of its parallel region.                                        *)
(* ------------------------------------------------------------------ *)
InitSeed ==
    \E n \in 1 .. MaxSeedN, w \in 1 .. MaxSeedW :
        /\ N = n
        /\ W = w
        /\ T = 1
        /\ dist = GenMatrix(n, n + w)
        /\ rpc = [r \in 0 .. (w - 1) |-> "start"]
        /\ my_tasks = [r \in 0 .. (w - 1) |-> << >>]
        /\ stack = [r \in 0 .. (w - 1) |-> [k \in 0 .. 0 |-> << >>]]
        /\ tpc = [r \in 0 .. (w - 1) |-> [k \in 0 .. 0 |-> "idle"]]
        /\ cur = [r \in 0 .. (w - 1) |-> [k \in 0 .. 0 |-> NoLeaf]]
        /\ lock = [r \in 0 .. (w - 1) |-> NoThread]
        /\ best_cost = [r \in 0 .. (w - 1) |-> INT_MAX]
        /\ best_path = [r \in 0 .. (w - 1) |-> [i \in 0 .. n |-> 0]]
        /\ contrib = [r \in 0 .. (w - 1) |-> NoValue]
        /\ global_best = [r \in 0 .. (w - 1) |-> NoValue]
        /\ chan = [r \in 0 .. (w - 1) |-> << >>]
        /\ src = 0
        /\ their_cost = NoValue
        /\ best_path_to_show = [i \in 0 .. n |-> 0]
        /\ output = NoOutput
        /\ queue = << >>
        /\ done = 0
        /\ reqs = { }
        /\ reply = [r \in 0 .. (w - 1) |-> NoReply]
        /\ expansions = [r \in 0 .. (w - 1) |-> 0]
        /\ init_cap = MAX_STACK_SIZE
        /\ cap = [r \in 0 .. (w - 1) |-> 0]
        /\ dropped = FALSE
        /\ file = NoFile
        /\ lbs = NoBounds

NextSeed == \E r \in Ranks : stable_distributed_search(r)

SpecSeed == InitSeed /\ [][NextSeed]_vars

Seeded(r) == rpc[r] # "start"

Min2(a, b) == IF a < b THEN a ELSE b

\* the range of the balanced contiguous scheme, counted in task indices
BalancedStart(r) == r * ((N - 1) \div W) + Min2(r, (N - 1) % W)

BalancedCount(r) == ((N - 1) \div W) + (IF r < (N - 1) % W THEN 1 ELSE 0)

CeilDiv(a, b) == (a + b - 1) \div b

\* C10: a seeded rank r holds exactly the tasks with indices
\* BalancedStart(r) .. BalancedStart(r) + BalancedCount(r) - 1 (task index
\* i is first-hop city i + 1), never more than ceil((N-1)/W) of them; and
\* once all ranks are seeded every city 1..N-1 is the seed of exactly one
\* task of exactly one rank.
C10_BalancedSeeding ==
    /\ \A r \in Ranks : Seeded(r) =>
          /\ Len(my_tasks[r]) = BalancedCount(r)
          /\ Len(my_tasks[r]) <= CeilDiv(N - 1, W)
          /\ \A k \in 1 .. Len(my_tasks[r]) :
                /\ my_tasks[r][k].city = BalancedStart(r) + (k - 1) + 1
                /\ my_tasks[r][k].path = << 0, my_tasks[r][k].city >>
    /\ (\A r \in Ranks : Seeded(r)) =>
          \A c \in 1 .. (N - 1) :
              Cardinality({ rk \in { << r, k >> : r \in Ranks, k \in 1 .. N } :
                              /\ rk[2] <= Len(my_tasks[rk[1]])
                              /\ my_tasks[rk[1]][rk[2]].city = c }) = 1

\* all ranks seeded, the tasks do not divide evenly, and both a rank with
\* an extra task and a rank without one exist
C10_Witness ==
    /\ \A r \in Ranks : Seeded(r)
    /\ N = 12
    /\ W = 5
    /\ Len(my_tasks[0]) = 3
    /\ Len(my_tasks[4]) = 2
    /\ my_tasks[4][2].city = 11

(* ================================================================== *)
(* v1 master/worker solver (wsp-mpi.c)                                 *)
(*                                                                     *)
(* Rank 0 runs master(), every other rank worker(); a worker searches  *)
(* each Task it is handed with dfs_from_task.  The positions of the    *)
(* ranks of this solver are the rpc values that start with "v1_".      *)
(* ================================================================== *)
\* cheapest edge out of city i: the inner loop of lower_bound
RECURSIVE RowMinFrom(_, _, _)
RowMinFrom(i, j, best) ==
    IF j >= N THEN best
    ELSE IF i # j /\ dist[i][j] < best THEN RowMinFrom(i, j + 1, dist[i][j])
    ELSE RowMinFrom(i, j + 1, best)

RECURSIVE LowerBoundFrom(_, _, _)
LowerBoundFrom(lb, mask, i) ==
    IF i >= N THEN lb
    ELSE IF Bit(mask, i) = 1 THEN LowerBoundFrom(lb, mask, i + 1)
    ELSE LowerBoundFrom(lb + RowMinFrom(i, 0, INT_MAX), mask, i + 1)

lower_bound(cost, mask) == LowerBoundFrom(cost, mask, 0)

V1RootNode(task) ==
    [city |-> task.city,
     depth |-> task.depth,
     cost |-> task.cost,
     visitedMask |-> task.visitedMask,
     path |-> SubSeq(task.path, 1, task.depth)]

V1ChildNode(n, next) ==
    [city |-> next,
     depth |-> n.depth + 1,
     cost |-> n.cost + dist[n.city][next],
     visitedMask |-> SetBit(n.visitedMask, next),
     path |-> Append(n.path, next)]

\* the expansion loop of dfs_from_task: next runs over 0 .. N-1
RECURSIVE V1PushChildren(_, _, _, _)
V1PushChildren(stk, n, next, best) ==
    IF next >= N THEN stk
    ELSE IF Bit(n.visitedMask, next) = 1
         THEN V1PushChildren(stk, n, next + 1, best)
    ELSE IF n.cost + dist[n.city][next] >= best
         THEN V1PushChildren(stk, n, next + 1, best)
    ELSE V1PushChildren(Append(stk, V1ChildNode(n, next)), n, next + 1, best)

V1Pruned(n, best) ==
    n.cost >= best \/ lower_bound(n.cost, n.visitedMask) >= best

V1Commits_Always(tourCost, best) == TRUE

\* the test that guards the assignment to best_cost at a complete tour
V1Commits(tourCost, best) == tourCost < best

\* a push finds sp == cap, and realloc is called, exactly when the pushes
\* of one expansion take the stack beyond the allocated slots
NeedsRealloc(slots, sp) == sp > slots

\* cap *= 2 at every push that finds sp == cap
RECURSIVE GrownCap(_, _)
GrownCap(slots, sp) ==
    IF NeedsRealloc(slots, sp) THEN GrownCap(2 * slots, sp) ELSE slots

\* mutation: rank 0 survives the abort
MPI_Abort_SparesMaster == [q \in Ranks |-> IF q = 0 THEN rpc[0] ELSE "aborted"]

\* MPI_Abort(MPI_COMM_WORLD, 1): every rank of the job is terminated
MPI_Abort == [q \in Ranks |-> "aborted"]

\* master(): the seed queue, city 0 -> i for i = 1 .. N-1
V1MasterSeed ==
    /\ rpc[0] = "v1_master_seed"
    /\ queue' = [k \in 1 .. (N - 1) |-> SeedTask(k)]
    /\ done' = 0
    /\ rpc' = [rpc EXCEPT ![0] = "v1_master_loop"]
    /\ UNCHANGED << reqs, reply, expansions >>
    /\ UNCHANGED memvars
    /\ UNCHANGED << lbs, file, N, W, T, dist, my_tasks, stack, tpc, cur, lock, best_cost,
                    best_path, contrib, global_best, chan, src, their_cost,
                    best_path_to_show, output >>

\* master(): receive a TAG_REQ from any source and answer it with the
\* last Task of the queue, or with TAG_NOWORK when the queue is empty
V1MasterServe ==
    /\ rpc[0] = "v1_master_loop"
    /\ done < W - 1
    /\ \E dst \in reqs :
        /\ reqs' = reqs \ { dst }
        /\ IF Len(queue) > 0
           THEN /\ reply' = [reply EXCEPT ![dst] =
                               [tag |-> "work", task |-> queue[Len(queue)]]]
                /\ queue' = SubSeq(queue, 1, Len(queue) - 1)
                /\ UNCHANGED done
           ELSE /\ reply' = [reply EXCEPT ![dst] =
                               [tag |-> "nowork", task |-> NoTask]]
                /\ done' = done + 1
                /\ UNCHANGED queue
    /\ UNCHANGED << rpc, expansions >>
    /\ UNCHANGED memvars
    /\ UNCHANGED << lbs, file, N, W, T, dist, my_tasks, stack, tpc, cur, lock, best_cost,
                    best_path, contrib, global_best, chan, src, their_cost,
                    best_path_to_show, output >>

\* master(): the loop ends once world-1 workers were told TAG_NOWORK
V1MasterReturn ==
    /\ rpc[0] = "v1_master_loop"
    /\ ~(done < W - 1)
    /\ rpc' = [rpc EXCEPT ![0] = "v1_reduce"]
    /\ UNCHANGED v1vars
    /\ UNCHANGED memvars
    /\ UNCHANGED << lbs, file, N, W, T, dist, my_tasks, stack, tpc, cur, lock, best_cost,
                    best_path, contrib, global_best, chan, src, their_cost,
                    best_path_to_show, output >>

\* worker(): MPI_Send of TAG_REQ
V1SendReq(r) ==
    /\ r # 0
    /\ rpc[r] = "v1_worker_request"
    /\ reqs' = reqs \cup { r }
    /\ rpc' = [rpc EXCEPT ![r] = "v1_worker_probe"]
    /\ UNCHANGED << queue, done, reply, expansions >>
    /\ UNCHANGED memvars
    /\ UNCHANGED << lbs, file, N, W, T, dist, my_tasks, stack, tpc, cur, lock, best_cost,
                    best_path, contrib, global_best, chan, src, their_cost,
                    best_path_to_show, output >>

\* worker(): MPI_Probe, then receive the Task and enter dfs_from_task
\* (root node pushed, expansions = 0), or receive TAG_NOWORK and leave
V1RecvReply(r) ==
    /\ r # 0
    /\ rpc[r] = "v1_worker_probe"
    /\ reply[r].tag # "none"
    /\ IF reply[r].tag = "work"
       THEN /\ stack' = [stack EXCEPT ![r][0] = << V1RootNode(reply[r].task) >>]
            /\ expansions' = [expansions EXCEPT ![r] = 0]
            /\ cap' = [cap EXCEPT ![r] = init_cap]
            /\ rpc' = [rpc EXCEPT ![r] = "v1_dfs"]
       ELSE /\ rpc' = [rpc EXCEPT ![r] = "v1_reduce"]
            /\ UNCHANGED << stack, expansions, cap >>
    /\ reply' = [reply EXCEPT ![r] = NoReply]
    /\ UNCHANGED << queue, done, reqs, init_cap, dropped >>
    /\ UNCHANGED << lbs, file, N, W, T, dist, my_tasks, tpc, cur, lock, best_cost,
                    best_path, contrib, global_best, chan, src, their_cost,
                    best_path_to_show, output >>

\* one iteration of the loop of dfs_from_task: pop; prune; or close the
\* tour and commit; or expand and count the expansion.  A push that finds
\* sp == cap doubles cap with realloc; realloc may return NULL, and the
\* rank then calls MPI_Abort.  When the count
\* reaches a multiple of REDUCE_INTERVAL the rank calls MPI_Allreduce.
\* MPI_Allreduce returns only after every rank of MPI_COMM_WORLD has
\* called it; rank 0 runs master() and then MPI_Reduce and never calls
\* it, so the call does not return and the assignment best_cost = g that
\* follows it is never executed.
V1DfsStep(r) ==
    /\ rpc[r] = "v1_dfs"
    /\ Len(stack[r][0]) > 0
    /\ LET sp == Len(stack[r][0])
           n == stack[r][0][sp]
           rest == SubSeq(stack[r][0], 1, sp - 1)
           tourCost == n.cost + dist[n.city][0]
           pushed == V1PushChildren(rest, n, 0, best_cost[r])
       IN IF V1Pruned(n, best_cost[r])
          THEN /\ stack' = [stack EXCEPT ![r][0] = rest]
               /\ UNCHANGED << best_cost, best_path, expansions, rpc, contrib,
                               cap >>
          ELSE IF n.depth = N
          THEN /\ stack' = [stack EXCEPT ![r][0] = rest]
               /\ IF V1Commits(tourCost, best_cost[r])
                  THEN /\ best_cost' = [best_cost EXCEPT ![r] = tourCost]
                       /\ best_path' = [best_path EXCEPT ![r] =
                                          [i \in 0 .. N |->
                                             IF i < N THEN n.path[i + 1] ELSE 0]]
                  ELSE UNCHANGED << best_cost, best_path >>
               /\ UNCHANGED << expansions, rpc, contrib, cap >>
          ELSE \/ /\ stack' = [stack EXCEPT ![r][0] = pushed]
                  /\ cap' = [cap EXCEPT ![r] = GrownCap(cap[r], Len(pushed))]
                  /\ expansions' = [expansions EXCEPT ![r] = expansions[r] + 1]
                  /\ IF (expansions[r] + 1) % REDUCE_INTERVAL = 0
                     THEN /\ rpc' = [rpc EXCEPT ![r] = "v1_allreduce"]
                          /\ contrib' = [contrib EXCEPT ![r] = best_cost[r]]
                     ELSE UNCHANGED << rpc, contrib >>
                  /\ UNCHANGED << best_cost, best_path >>
               \/ /\ NeedsRealloc(cap[r], Len(pushed))
                  /\ rpc' = MPI_Abort
                  /\ UNCHANGED << stack, cap, expansions, contrib, best_cost,
                                  best_path >>
    /\ UNCHANGED << queue, done, reqs, reply, init_cap, dropped >>
    /\ UNCHANGED << lbs, file, N, W, T, dist, my_tasks, tpc, cur, lock, global_best, chan,
                    src, their_cost, best_path_to_show, output >>

\* dfs_from_task returns when its stack is empty; the worker loops
V1DfsReturn(r) ==
    /\ rpc[r] = "v1_dfs"
    /\ Len(stack[r][0]) = 0
    /\ rpc' = [rpc EXCEPT ![r] = "v1_worker_request"]
    /\ UNCHANGED v1vars
    /\ UNCHANGED memvars
    /\ UNCHANGED << lbs, file, N, W, T, dist, my_tasks, stack, tpc, cur, lock, best_cost,
                    best_path, contrib, global_best, chan, src, their_cost,
                    best_path_to_show, output >>

\* a worker calls MPI_Reduce: it hands in best_cost and goes on
V1ReduceSend(r) ==
    /\ r # 0
    /\ rpc[r] = "v1_reduce"
    /\ contrib' = [contrib EXCEPT ![r] = best_cost[r]]
    /\ rpc' = [rpc EXCEPT ![r] = "v1_finalize"]
    /\ UNCHANGED v1vars
    /\ UNCHANGED memvars
    /\ UNCHANGED << lbs, file, N, W, T, dist, my_tasks, stack, tpc, cur, lock, best_cost,
                    best_path, global_best, chan, src, their_cost,
                    best_path_to_show, output >>

\* rank 0 calls MPI_Reduce: MPI_MIN over its own and all workers' values
V1ReduceRoot ==
    /\ rpc[0] = "v1_reduce"
    /\ \A q \in Ranks \ { 0 } : rpc[q] \in { "v1_finalize", "v1_done" }
    /\ global_best' = [global_best EXCEPT ![0] =
                         MinOf({ best_cost[0] } \cup
                               { contrib[q] : q \in Ranks \ { 0 } })]
    /\ contrib' = [contrib EXCEPT ![0] = best_cost[0]]
    /\ rpc' = [rpc EXCEPT ![0] = "v1_print"]
    /\ UNCHANGED v1vars
    /\ UNCHANGED memvars
    /\ UNCHANGED << lbs, file, N, W, T, dist, my_tasks, stack, tpc, cur, lock, best_cost,
                    best_path, chan, src, their_cost, best_path_to_show,
                    output >>

\* rank 0 prints the cost (this solver prints no path)
V1Print ==
    /\ rpc[0] = "v1_print"
    /\ output' = [printed |-> TRUE, cost |-> global_best[0],
                  has_path |-> FALSE, path |-> << >>]
    /\ rpc' = [rpc EXCEPT ![0] = "v1_finalize"]
    /\ UNCHANGED v1vars
    /\ UNCHANGED memvars
    /\ UNCHANGED << lbs, file, N, W, T, dist, my_tasks, stack, tpc, cur, lock, best_cost,
                    best_path, contrib, global_best, chan, src, their_cost,
                    best_path_to_show >>

V1Finalize(r) ==
    /\ rpc[r] = "v1_finalize"
    /\ rpc' = [rpc EXCEPT ![r] = "v1_done"]
    /\ UNCHANGED v1vars
    /\ UNCHANGED memvars
    /\ UNCHANGED << lbs, file, N, W, T, dist, my_tasks, stack, tpc, cur, lock, best_cost,
                    best_path, contrib, global_best, chan, src, their_cost,
                    best_path_to_show, output >>

\* a square matrix need not be symmetric: read_distance_file of the v1
\* solver copies the N * N numbers of the file as they are
SquareMatrix(n, k) ==
    [i \in 0 .. (n - 1) |->
        [j \in 0 .. (n - 1) |->
            IF i = j THEN 0
            ELSE IF i < j THEN GenEdge(i, j, k) ELSE GenEdge(j, i, k + 1)]]

V1Instances(n) == Instances(n) \cup { SquareMatrix(n, k) : k \in 0 .. MaxInst }

\* after MPI_Bcast and best_cost = INT_MAX
V1Start(slots) ==
    \E n \in 1 .. MaxN, w \in 1 .. MaxW :
      \E d \in V1Instances(n) :
        /\ N = n
        /\ W = w
        /\ T = 1
        /\ dist = d
        /\ rpc = [r \in 0 .. (w - 1) |->
                    IF r = 0 THEN "v1_master_seed" ELSE "v1_worker_request"]
        /\ my_tasks = [r \in 0 .. (w - 1) |-> << >>]
        /\ stack = [r \in 0 .. (w - 1) |-> [k \in 0 .. 0 |-> << >>]]
        /\ tpc = [r \in 0 .. (w - 1) |-> [k \in 0 .. 0 |-> "idle"]]
        /\ cur = [r \in 0 .. (w - 1) |-> [k \in 0 .. 0 |-> NoLeaf]]
        /\ lock = [r \in 0 .. (w - 1) |-> NoThread]
        /\ best_cost = [r \in 0 .. (w - 1) |-> INT_MAX]
        /\ best_path = [r \in 0 .. (w - 1) |-> [i \in 0 .. n |-> 0]]
        /\ contrib = [r \in 0 .. (w - 1) |-> NoValue]
        /\ global_best = [r \in 0 .. (w - 1) |-> NoValue]
        /\ chan = [r \in 0 .. (w - 1) |-> << >>]
        /\ src = 0
        /\ their_cost = NoValue
        /\ best_path_to_show = [i \in 0 .. n |-> 0]
        /\ output = NoOutput
        /\ queue = << >>
        /\ done = 0
        /\ reqs = { }
        /\ reply = [r \in 0 .. (w - 1) |-> NoReply]
        /\ expansions = [r \in 0 .. (w - 1) |-> 0]
        /\ init_cap = slots
        /\ cap = [r \in 0 .. (w - 1) |-> 0]
        /\ dropped = FALSE
        /\ file = NoFile
        /\ lbs = NoBounds

\* the program as built: INIT_CAP slots
InitV1 == V1Start(INIT_CAP)

NextV1 ==
    \/ V1MasterSeed
    \/ V1MasterServe
    \/ V1MasterReturn
    \/ \E r \in Ranks : V1SendReq(r)
    \/ \E r \in Ranks : V1RecvReply(r)
    \/ \E r \in Ranks : V1DfsStep(r)
    \/ \E r \in Ranks : V1DfsReturn(r)
    \/ \E r \in Ranks : V1ReduceSend(r)
    \/ V1ReduceRoot
    \/ V1Print
    \/ \E r \in Ranks : V1Finalize(r)

SpecV1 == InitV1 /\ [][NextV1]_vars

(* ------------------------------------------------------------------ *)
(* Both solvers: a run is a run of the hybrid solver or of the v1      *)
(* master/worker solver                                                *)
(* ------------------------------------------------------------------ *)
SpecBoth == (Init \/ InitV1) /\ [][Next \/ NextV1]_vars

\* C6: on every rank best_cost never increases: every step of either
\* solver that assigns best_cost (a tour committed by a thread of the
\* hybrid DFS, a tour committed by dfs_from_task of the v1 solver) writes
\* a value less than or equal to the value it replaces; the value a
\* thread reads at each pop is therefore non-increasing as well.
C6_Monotonic ==
    [][\A r \in Ranks : best_cost'[r] <= best_cost[r]]_vars

\* a thread of the hybrid solver has just replaced the cost of an earlier,
\* costlier tour (whose path is still in best_path) by a cheaper one
C6_Witness ==
    \E r \in Ranks : \E t \in Threads :
        /\ tpc[r][t] = "write_path"
        /\ lock[r] = t
        /\ best_cost[r] = cur[r][t].tour_cost
        /\ IsTour(PathSeq(best_path[r]))
        /\ EdgeSum(PathSeq(best_path[r])) > best_cost[r]

(* ================================================================== *)
(* Way2 owner-computes solver (README.md)                              *)
(*                                                                     *)
(* Every rank seeds its own range of first-hop cities and searches it  *)
(* single-threaded.  The positions of the ranks of this solver are the *)
(* rpc values that start with "w2_".                                   *)
(* ================================================================== *)
\* ceiling division
tasks_per_rank(world) == (N - 1 + world - 1) \div world

start_city_FromZero(rank, world) == rank * tasks_per_rank(world)

start_city(rank, world) == 1 + rank * tasks_per_rank(world)

end_city(rank, world) ==
    IF start_city(rank, world) + tasks_per_rank(world) > N
    THEN N
    ELSE start_city(rank, world) + tasks_per_rank(world)

\* the loop for (i = start_city; i < end_city; i++)
Way2Tasks(rank, world) ==
    [k \in 1 .. (IF end_city(rank, world) > start_city(rank, world)
                 THEN end_city(rank, world) - start_city(rank, world) ELSE 0)
       |-> SeedTask(start_city(rank, world) + (k - 1))]

\* distributed_search up to the loop of dfs_with_periodic_sync: build
\* my_tasks; with no task the DFS returns at once, otherwise all tasks
\* are pushed on the stack
distributed_search(r) ==
    /\ rpc[r] = "w2_start"
    /\ my_tasks' = [my_tasks EXCEPT ![r] = Way2Tasks(r, W)]
    /\ IF Len(Way2Tasks(r, W)) = 0
       THEN /\ rpc' = [rpc EXCEPT ![r] = "w2_allreduce"]
            /\ UNCHANGED << stack, cap >>
       ELSE /\ rpc' = [rpc EXCEPT ![r] = "w2_dfs"]
            /\ stack' = [stack EXCEPT ![r][0] =
                           [k \in 1 .. Len(Way2Tasks(r, W)) |->
                               V1RootNode(Way2Tasks(r, W)[k])]]
            /\ cap' = [cap EXCEPT ![r] = init_cap]
    /\ UNCHANGED << init_cap, dropped >>
    /\ UNCHANGED v1vars
    /\ UNCHANGED << lbs, file, N, W, T, dist, tpc, cur, lock, best_cost, best_path,
                    contrib, global_best, chan, src, their_cost,
                    best_path_to_show, output >>

(* ------------------------------------------------------------------ *)
(* Way2 seeding alone, for instances of up to MaxSeedN cities on up to *)
(* MaxSeedW ranks                                                      *)
(* ------------------------------------------------------------------ *)
InitWay2Seed ==
    \E n \in 1 .. MaxSeedN, w \in 1 .. MaxSeedW :
        /\ N = n
        /\ W = w
        /\ T = 1
        /\ dist = GenMatrix(n, n + w)
        /\ rpc = [r \in 0 .. (w - 1) |-> "w2_start"]
        /\ my_tasks = [r \in 0 .. (w - 1) |-> << >>]
        /\ stack = [r \in 0 .. (w - 1) |-> [k \in 0 .. 0 |-> << >>]]
        /\ tpc = [r \in 0 .. (w - 1) |-> [k \in 0 .. 0 |-> "idle"]]
        /\ cur = [r \in 0 .. (w - 1) |-> [k \in 0 .. 0 |-> NoLeaf]]
        /\ lock = [r \in 0 .. (w - 1) |-> NoThread]
        /\ best_cost = [r \in 0 .. (w - 1) |-> INT_MAX]
        /\ best_path = [r \in 0 .. (w - 1) |-> [i \in 0 .. n |-> 0]]
        /\ contrib = [r \in 0 .. (w - 1) |-> NoValue]
        /\ global_best = [r \in 0 .. (w - 1) |-> NoValue]
        /\ chan = [r \in 0 .. (w - 1) |-> << >>]
        /\ src = 0
        /\ their_cost = NoValue
        /\ best_path_to_show = [i \in 0 .. n |-> 0]
        /\ output = NoOutput
        /\ queue = << >>
        /\ done = 0
        /\ reqs = { }
        /\ reply = [r \in 0 .. (w - 1) |-> NoReply]
        /\ expansions = [r \in 0 .. (w - 1) |-> 0]
        /\ init_cap = INIT_CAP
        /\ cap = [r \in 0 .. (w - 1) |-> 0]
        /\ dropped = FALSE
        /\ file = NoFile
        /\ lbs = NoBounds

NextWay2Seed == \E r \in Ranks : distributed_search(r)

SpecWay2Seed == InitWay2Seed /\ [][NextWay2Seed]_vars

Way2Seeded(r) == rpc[r] # "w2_start"

\* the (rank, index) pairs of the tasks that seed city c
Way2SeedsOf(c) ==
    { rk \in { << r, k >> : r \in Ranks, k \in 1 .. N } :
        /\ rk[2] <= Len(my_tasks[rk[1]])
        /\ my_tasks[rk[1]][rk[2]].city = c }

\* C11: in the Way2 solver every task a rank has built seeds a first-hop
\* city in 1..N-1, no city is the seed of two tasks (of one rank or of two
\* ranks), and once every rank has seeded every city 1..N-1 is the seed
\* of exactly one task; this includes the ranks whose start_city lies
\* beyond N-1.
C11_Way2ExactlyOnce ==
    /\ \A r \in Ranks : \A k \in 1 .. Len(my_tasks[r]) :
          /\ my_tasks[r][k].city \in 1 .. (N - 1)
          /\ my_tasks[r][k].path = << 0, my_tasks[r][k].city >>
    /\ \A c \in 1 .. (N - 1) : Cardinality(Way2SeedsOf(c)) <= 1
    /\ (\A r \in Ranks : Way2Seeded(r)) =>
          \A c \in 1 .. (N - 1) : Cardinality(Way2SeedsOf(c)) = 1

\* all ranks have seeded and the last rank's range starts beyond N-1
C11_Witness ==
    /\ \A r \in Ranks : Way2Seeded(r)
    /\ N = 6
    /\ W = 4
    /\ (W - 1) * tasks_per_rank(W) > N - 1
    /\ Len(my_tasks[W - 1]) = 0
    /\ Len(my_tasks[2]) = 1
    /\ my_tasks[2][1].city = 5

\* C12 (as claimed): a rank r seeded by the Way2 solver holds
\* floor((N-1)/W) + 1 tasks if r < (N-1) mod W and floor((N-1)/W) tasks
\* otherwise, so the counts of two seeded ranks differ by at most one.
C12_Way2BalancedCounts ==
    /\ \A r \in Ranks : Way2Seeded(r) =>
          Len(my_tasks[r]) = BalancedCount(r)
    /\ \A r, q \in Ranks : (Way2Seeded(r) /\ Way2Seeded(q)) =>
          Len(my_tasks[r]) - Len(my_tasks[q]) <= 1

(* ------------------------------------------------------------------ *)
(* The hybrid solver under fair scheduling: a step that is possible is *)
(* eventually taken (threads and MPI processes are scheduled by the    *)
(* operating system; no step of the program waits on anything but the  *)
(* guards modelled here).                                              *)
(* ------------------------------------------------------------------ *)
FairSpec == Spec /\ WF_vars(Next)

\* the rank's seed range is empty
EmptyRank(r) == Len(SeedTasks(r, W)) = 0

AllDone == \A r \in Ranks : rpc[r] = "done"

\* what holds of a rank with an empty seed range at every point of a run
EmptyRankTakesPart(r) ==
    /\ rpc[r] # "search"
    /\ best_cost[r] = INT_MAX
    /\ (rpc[r] \notin { "start", "allreduce" }) => contrib[r] = INT_MAX
    /\ (r # 0 /\ rpc[r] \in { "finalize", "done" }) =>
          \/ /\ FirstWithTag(chan[r], TAG_COST_MSG, 1) # 0
             /\ FirstWithTag(chan[r], TAG_PATH_MSG, 1) # 0
          \/ /\ src = r
             /\ rpc[0] = "recv_path"
             /\ FirstWithTag(chan[r], TAG_PATH_MSG, 1) # 0
          \/ src > r

DriverReturned(r) == rpc[r] \notin { "start", "search" }

\* C14: under weak fairness every run of the hybrid solver terminates:
\* every thread's stack becomes empty and the thread exits, the Driver of
\* every rank returns only when all its threads have emptied their stacks
\* and released the critical section, and every rank then passes the
\* reduction and the path-gather and finalises, for good.
C14_Termination ==
    /\ [](\A r \in Ranks : DriverReturned(r) =>
            /\ lock[r] = NoThread
            /\ \A t \in Threads :
                  /\ Len(stack[r][t]) = 0
                  /\ tpc[r][t] \in { "idle", "exited" })
    /\ <>[](/\ AllDone
            /\ output.printed
            /\ \A r \in Ranks : global_best[r] # NoValue
            /\ \A r \in Ranks : chan[r] = << >>)

\* a finished run of two ranks with two threads each on four cities, in
\* which the threads of both ranks have searched
C14_Witness ==
    /\ N = 4
    /\ W = 2
    /\ T = 2
    /\ AllDone
    /\ \A r \in Ranks : \A t \in Threads :
          tpc[r][t] = "exited" /\ Len(stack[r][t]) = 0
    /\ \A r \in Ranks : best_cost[r] < INT_MAX
    /\ output.printed

(* ------------------------------------------------------------------ *)
(* The v1 solver under fair scheduling                                 *)
(* ------------------------------------------------------------------ *)
FairSpecV1 == SpecV1 /\ WF_vars(NextV1)

V1AllDone == \A r \in Ranks : rpc[r] = "v1_done"

\* C15 (as claimed): a worker of the v1 solver that calls MPI_Allreduce in
\* dfs_from_task always returns from it and goes on with its search, and
\* every run on W >= 2 ranks reaches the final MPI_Reduce, prints the
\* result and terminates.
C15_ExchangeCompletes ==
    /\ \A q \in 0 .. MaxW :
          [](q \in Ranks /\ rpc[q] = "v1_allreduce"
                => <>(q \in Ranks /\ rpc[q] # "v1_allreduce"))
    /\ (W >= 2) ~> (V1AllDone /\ output.printed)

(* ================================================================== *)
(* Small stacks: both solvers built with a stack capacity that their   *)
(* searches reach.  The hybrid solver gets MAX_STACK_SIZE = N, the      *)
(* smallest capacity that holds the seed nodes of a thread (the seeds   *)
(* are stored without a capacity test); the v1 solver gets INIT_CAP in  *)
(* 1 .. MaxSmallCap, and its realloc may fail.                          *)
(* ================================================================== *)
InitMem ==
    \/ HybridStart(N)
    \/ \E slots \in 1 .. MaxSmallCap : V1Start(slots)

NextMem == Next \/ NextV1

SpecMem == InitMem /\ [][NextMem]_vars

Aborted == \E r \in Ranks : rpc[r] = "aborted"

\* the run is one of the hybrid solver
IsHybridRun == \A r \in Ranks :
    rpc[r] \in { "start", "search", "allreduce", "allreduce_wait", "gather",
                 "recv_cost", "recv_path", "send_path", "print", "finalize",
                 "done" }

\* a push could not be performed: a child was dropped (hybrid solver) or
\* realloc failed (v1 solver)
PushFailed == dropped \/ Aborted

ReadCount(max_n, nums) ==
    IF Len(nums) < max_n * max_n THEN Len(nums) ELSE max_n * max_n

needSquare(n) == n * n

needTri(n) == (n * (n - 1)) \div 2

\* dist[i][j] = nums[k++] over i, j < N in row-major order
SquareDist(max_n, n, nums) ==
    [i \in 0 .. (max_n - 1) |->
        [j \in 0 .. (max_n - 1) |->
            IF i < n /\ j < n THEN nums[i * n + j + 1] ELSE 0]]

\* mutation: the entries of a row are taken in reverse order
TriIndex_Reversed(i, j) == ((i * (i - 1)) \div 2) + (i - 1 - j)

\* the value of k when the loops for (i = 1 ..) for (j = 0 .. i-1) reach
\* dist[i][j], j < i
TriIndex(i, j) == ((i * (i - 1)) \div 2) + j

\* dist[i][j] = dist[j][i] = nums[k++]; the diagonal stays (or is set to) 0
TriDist(max_n, n, nums) ==
    [i \in 0 .. (max_n - 1) |->
        [j \in 0 .. (max_n - 1) |->
            IF i < n /\ j < n /\ i # j
            THEN IF j < i THEN nums[TriIndex(i, j) + 1]
                 ELSE nums[TriIndex(j, i) + 1]
            ELSE 0]]

ZeroDist(max_n) == [i \in 0 .. (max_n - 1) |-> [j \in 0 .. (max_n - 1) |-> 0]]

\* the format test on cnt
LoadedDist(max_n, f) ==
    LET cnt == ReadCount(max_n, f.nums)
    IN IF cnt = needSquare(f.n) THEN [ok |-> TRUE, dist |-> SquareDist(max_n, f.n, f.nums)]
       ELSE IF cnt = needTri(f.n) THEN [ok |-> TRUE, dist |-> TriDist(max_n, f.n, f.nums)]
       ELSE [ok |-> FALSE, dist |-> ZeroDist(max_n)]

\* read_distance_file of the hybrid solver: N is checked against 1 .. MAX_N
HybridLoad(f) ==
    IF ~f.has_n \/ f.n > MAX_N \/ f.n <= 0
    THEN [ok |-> FALSE, dist |-> ZeroDist(MAX_N)]
    ELSE LoadedDist(MAX_N, f)

\* read_distance_file of the v1 solver: only N > MAX_N is rejected
V1Load(f) ==
    IF ~f.has_n \/ f.n > MAX_N_V1
    THEN [ok |-> FALSE, dist |-> ZeroDist(MAX_N_V1)]
    ELSE LoadedDist(MAX_N_V1, f)

\* rank 0 of the hybrid solver: if (rank == 0) read_distance_file(argv[1])
read_distance_file ==
    /\ rpc[0] = "load"
    /\ N' = IF file.has_n THEN file.n ELSE N
    /\ dist' = HybridLoad(file).dist
    /\ rpc' = IF HybridLoad(file).ok
              THEN [rpc EXCEPT ![0] = "bcast"]
              ELSE MPI_Abort
    /\ UNCHANGED v1vars
    /\ UNCHANGED memvars
    /\ UNCHANGED << lbs, file, W, T, my_tasks, stack, tpc, cur, lock, best_cost,
                    best_path, contrib, global_best, chan, src, their_cost,
                    best_path_to_show, output >>

\* rank 0 of the v1 solver
V1_read_distance_file ==
    /\ rpc[0] = "v1_load"
    /\ N' = IF file.has_n THEN file.n ELSE N
    /\ dist' = V1Load(file).dist
    /\ rpc' = IF V1Load(file).ok
              THEN [rpc EXCEPT ![0] = "v1_bcast"]
              ELSE MPI_Abort
    /\ UNCHANGED v1vars
    /\ UNCHANGED memvars
    /\ UNCHANGED << lbs, file, W, T, my_tasks, stack, tpc, cur, lock, best_cost,
                    best_path, contrib, global_best, chan, src, their_cost,
                    best_path_to_show, output >>

\* the two MPI_Bcast of main: every rank has N and dist of rank 0
Bcast ==
    /\ \/ /\ \A q \in Ranks : rpc[q] = "bcast"
          /\ rpc' = [q \in Ranks |-> "ready"]
       \/ /\ \A q \in Ranks : rpc[q] = "v1_bcast"
          /\ rpc' = [q \in Ranks |-> "v1_ready"]
    /\ UNCHANGED v1vars
    /\ UNCHANGED memvars
    /\ UNCHANGED << lbs, file, N, W, T, dist, my_tasks, stack, tpc, cur, lock,
                    best_cost, best_path, contrib, global_best, chan, src,
                    their_cost, best_path_to_show, output >>

(* ------------------------------------------------------------------ *)
(* Distance files                                                      *)
(* ------------------------------------------------------------------ *)
\* count integers with values in 0 .. MaxDist + 1
Pattern(count, p) ==
    [k \in 1 .. count |-> ((k * (p + 1)) % (MaxDist + 1)) + p]

\* the full matrix in row-major order
SquareForm(M, n) == [k \in 1 .. (n * n) |-> M[(k - 1) \div n][(k - 1) % n]]

\* the strict lower triangle: row 1 col 0; row 2 cols 0..1; ...
RECURSIVE TriFormFrom(_, _, _)
TriFormFrom(M, n, i) ==
    IF i >= n THEN << >>
    ELSE [j \in 1 .. i |-> M[i][j - 1]] \o TriFormFrom(M, n, i + 1)

TriForm(M, n) == TriFormFrom(M, n, 1)

\* the counts around the two formats of n cities and around the sizes of
\* the scratch arrays of the two loaders
FileCounts(n) ==
    { c \in 0 .. MaxCount :
        \/ c <= 1
        \/ \E d \in { -1, 0, 1 } :
              \/ c = n * n + d
              \/ c = ((n * (n - 1)) \div 2) + d
              \/ c = MAX_N * MAX_N + d
              \/ c = MAX_N_V1 * MAX_N_V1 + d }

LoadFiles ==
    UNION { { [has_n |-> TRUE, n |-> n, nums |-> Pattern(c, p)] :
                c \in FileCounts(n), p \in 0 .. MaxPattern } :
            n \in (0 - MaxNegN) .. MaxLoadN }
    \cup { [has_n |-> TRUE, n |-> n, nums |-> SquareForm(GenMatrix(n, k), n)] :
             n \in 1 .. MaxSymN, k \in 0 .. MaxInst }
    \cup { [has_n |-> TRUE, n |-> n, nums |-> TriForm(GenMatrix(n, k), n)] :
             n \in 1 .. MaxSymN, k \in 0 .. MaxInst }
    \cup { NoFile }

\* main of either solver after MPI_Comm_size: rank 0 is about to read the
\* file, the other ranks are in MPI_Bcast
LoadStart(first, others, max_n) ==
    \E w \in 1 .. MaxW : \E f \in LoadFiles :
        /\ file = f
        /\ lbs = NoBounds
        /\ N = 0
        /\ W = w
        /\ T = 1
        /\ dist = ZeroDist(max_n)
        /\ rpc = [r \in 0 .. (w - 1) |-> IF r = 0 THEN first ELSE others]
        /\ my_tasks = [r \in 0 .. (w - 1) |-> << >>]
        /\ stack = [r \in 0 .. (w - 1) |-> [k \in 0 .. 0 |-> << >>]]
        /\ tpc = [r \in 0 .. (w - 1) |-> [k \in 0 .. 0 |-> "idle"]]
        /\ cur = [r \in 0 .. (w - 1) |-> [k \in 0 .. 0 |-> NoLeaf]]
        /\ lock = [r \in 0 .. (w - 1) |-> NoThread]
        /\ best_cost = [r \in 0 .. (w - 1) |-> 0]
        /\ best_path = [r \in 0 .. (w - 1) |-> << >>]
        /\ contrib = [r \in 0 .. (w - 1) |-> NoValue]
        /\ global_best = [r \in 0 .. (w - 1) |-> NoValue]
        /\ chan = [r \in 0 .. (w - 1) |-> << >>]
        /\ src = 0
        /\ their_cost = NoValue
        /\ best_path_to_show = << >>
        /\ output = NoOutput
        /\ queue = << >>
        /\ done = 0
        /\ reqs = { }
        /\ reply = [r \in 0 .. (w - 1) |-> NoReply]
        /\ expansions = [r \in 0 .. (w - 1) |-> 0]
        /\ init_cap = 0
        /\ cap = [r \in 0 .. (w - 1) |-> 0]
        /\ dropped = FALSE

InitLoad ==
    \/ LoadStart("load", "bcast", MAX_N)
    \/ LoadStart("v1_load", "v1_bcast", MAX_N_V1)

NextLoad ==
    \/ read_distance_file
    \/ V1_read_distance_file
    \/ Bcast

SpecLoad == InitLoad /\ [][NextLoad]_vars

\* rank 0 has returned from read_distance_file
LoadSucceeded ==
    \A q \in Ranks : rpc[q] \in { "bcast", "ready", "v1_bcast", "v1_ready" }

\* rank 0 has not read the file yet
Loading == rpc[0] \in { "load", "v1_load" }

\* C17 (as claimed): the load ends in a global abort, with nothing on
\* standard output, exactly when the declared N is outside 1 .. 18 or the
\* number of integers after N is neither N*N nor N*(N-1)/2; otherwise it
\* succeeds.
C17_LoadFailsExactlyWhenMalformed ==
    ~Loading =>
        LET malformed ==
              \/ ~file.has_n
              \/ file.n \notin 1 .. 18
              \/ Len(file.nums) \notin
                    { file.n * file.n, (file.n * (file.n - 1)) \div 2 }
        IN /\ malformed => (Aborted /\ ~output.printed)
           /\ ~malformed => LoadSucceeded

\* C18 (as claimed): after a successful load D[i][i] = 0 for every city i.
C18_ZeroDiagonal ==
    LoadSucceeded => \A i \in 0 .. (N - 1) : dist[i][i] = 0

\* the file holds the full row-major form of a symmetric matrix of
\* file.n cities with a zero diagonal
IsSymmetricSquareFile ==
    /\ file.has_n
    /\ file.n \in 1 .. MAX_N_V1
    /\ Len(file.nums) = file.n * file.n
    /\ \A i, j \in 0 .. (file.n - 1) :
          /\ file.nums[i * file.n + j + 1] = file.nums[j * file.n + i + 1]
          /\ i = j => file.nums[i * file.n + j + 1] = 0

\* the matrix a square file spells out, and the file with its lower triangle
FileMatrix ==
    [i \in 0 .. (file.n - 1) |->
        [j \in 0 .. (file.n - 1) |-> file.nums[i * file.n + j + 1]]]

TriFileOfFile ==
    [has_n |-> TRUE, n |-> file.n, nums |-> TriForm(FileMatrix, file.n)]

\* C19: when the file is the full form of a symmetric instance with zero
\* diagonal, the load succeeds, the loader also accepts the file with the
\* strict lower triangle of the same instance, and the whole array dist it
\* builds from that file is the array built from the full form (for both
\* loaders); the cities' entries are those of the instance.
C19_FormatEquivalence ==
    (IsSymmetricSquareFile /\ ~Loading) =>
        /\ LoadSucceeded
        /\ \A i, j \in 0 .. (file.n - 1) : dist[i][j] = FileMatrix[i][j]
        /\ IF rpc[0] \in { "bcast", "ready" }
           THEN /\ HybridLoad(TriFileOfFile).ok
                /\ HybridLoad(TriFileOfFile).dist = dist
           ELSE /\ V1Load(TriFileOfFile).ok
                /\ V1Load(TriFileOfFile).dist = dist

\* a symmetric instance of four cities with unequal entries in one row of
\* its triangle has been loaded from its full form
C19_Witness ==
    /\ IsSymmetricSquareFile
    /\ LoadSucceeded
    /\ file.n = 4
    /\ N = 4
    /\ dist[2][0] # dist[2][1]
    /\ dist[3][0] # dist[3][2]
    /\ dist[1][2] = dist[2][1]

(* ================================================================== *)
(* Corrected master/worker solver, "Way1" (part_001:656-1012)          *)
(*                                                                     *)
(* The same master(), worker() and dfs_from_task as the v1 solver, but *)
(* dfs_from_task exchanges nothing while it searches; the costs are    *)
(* reduced once after the search and the path is gathered by rank 0.   *)
(* With one rank the master searches every task itself.  The positions *)
(* of the ranks of this solver are the rpc values that start with      *)
(* "w1_".                                                              *)
(* ================================================================== *)
\* enum { ..., TAG_COST = 10, TAG_PATH = 11 }
TAG_COST == 10

TAG_PATH == 11

\* master(): the seed queue, then the branch on world == 1
Way1MasterSeed ==
    /\ rpc[0] = "w1_master_seed"
    /\ queue' = [k \in 1 .. (N - 1) |-> SeedTask(k)]
    /\ done' = 0
    /\ rpc' = [rpc EXCEPT ![0] = IF W = 1 THEN "w1_master_solo"
                                 ELSE "w1_master_loop"]
    /\ UNCHANGED << reqs, reply, expansions >>
    /\ UNCHANGED memvars
    /\ UNCHANGED << lbs, file, N, W, T, dist, my_tasks, stack, tpc, cur, lock, best_cost,
                    best_path, contrib, global_best, chan, src, their_cost,
                    best_path_to_show, output >>

\* master(), world == 1: dfs_from_task(&queue[i]) for i = 0 .. qsz-1,
\* then return
Way1MasterSolo ==
    /\ rpc[0] = "w1_master_solo"
    /\ IF Len(queue) > 0
       THEN /\ stack' = [stack EXCEPT ![0][0] = << V1RootNode(Head(queue)) >>]
            /\ cap' = [cap EXCEPT ![0] = init_cap]
            /\ queue' = Tail(queue)
            /\ rpc' = [rpc EXCEPT ![0] = "w1_dfs"]
       ELSE /\ rpc' = [rpc EXCEPT ![0] = "w1_reduce"]
            /\ UNCHANGED << stack, cap, queue >>
    /\ UNCHANGED << done, reqs, reply, expansions, init_cap, dropped >>
    /\ UNCHANGED << lbs, file, N, W, T, dist, my_tasks, tpc, cur, lock, best_cost,
                    best_path, contrib, global_best, chan, src, their_cost,
                    best_path_to_show, output >>

\* mutation: the master sends queue[qsz - 1] without decrementing qsz
Way1MasterServe_KeepsTask ==
    /\ rpc[0] = "w1_master_loop"
    /\ done < W - 1
    /\ \E dst \in reqs :
        /\ reqs' = reqs \ { dst }
        /\ IF Len(queue) > 0
           THEN /\ reply' = [reply EXCEPT ![dst] =
                               [tag |-> "work", task |-> queue[Len(queue)]]]
                /\ UNCHANGED << queue, done >>
           ELSE /\ reply' = [reply EXCEPT ![dst] =
                               [tag |-> "nowork", task |-> NoTask]]
                /\ done' = done + 1
                /\ UNCHANGED queue
    /\ UNCHANGED << rpc, expansions >>
    /\ UNCHANGED memvars
    /\ UNCHANGED << lbs, file, N, W, T, dist, my_tasks, stack, tpc, cur, lock, best_cost,
                    best_path, contrib, global_best, chan, src, their_cost,
                    best_path_to_show, output >>

\* master(), world > 1: receive a TAG_REQ from any source and answer it
\* with queue[--qsz], or with TAG_NOWORK when the queue is empty
Way1MasterServe ==
    /\ rpc[0] = "w1_master_loop"
    /\ done < W - 1
    /\ \E dst \in reqs :
        /\ reqs' = reqs \ { dst }
        /\ IF Len(queue) > 0
           THEN /\ reply' = [reply EXCEPT ![dst] =
                               [tag |-> "work", task |-> queue[Len(queue)]]]
                /\ queue' = SubSeq(queue, 1, Len(queue) - 1)
                /\ UNCHANGED done
           ELSE /\ reply' = [reply EXCEPT ![dst] =
                               [tag |-> "nowork", task |-> NoTask]]
                /\ done' = done + 1
                /\ UNCHANGED queue
    /\ UNCHANGED << rpc, expansions >>
    /\ UNCHANGED memvars
    /\ UNCHANGED << lbs, file, N, W, T, dist, my_tasks, stack, tpc, cur, lock, best_cost,
                    best_path, contrib, global_best, chan, src, their_cost,
                    best_path_to_show, output >>

\* mutation: the loop ends after the first TAG_NOWORK
Way1MasterReturn_AfterFirst ==
    /\ rpc[0] = "w1_master_loop"
    /\ done >= 1
    /\ rpc' = [rpc EXCEPT ![0] = "w1_reduce"]
    /\ UNCHANGED v1vars
    /\ UNCHANGED memvars
    /\ UNCHANGED << lbs, file, N, W, T, dist, my_tasks, stack, tpc, cur, lock, best_cost,
                    best_path, contrib, global_best, chan, src, their_cost,
                    best_path_to_show, output >>

\* master(): the loop ends once world-1 workers were told TAG_NOWORK
Way1MasterReturn ==
    /\ rpc[0] = "w1_master_loop"
    /\ ~(done < W - 1)
    /\ rpc' = [rpc EXCEPT ![0] = "w1_reduce"]
    /\ UNCHANGED v1vars
    /\ UNCHANGED memvars
    /\ UNCHANGED << lbs, file, N, W, T, dist, my_tasks, stack, tpc, cur, lock, best_cost,
                    best_path, contrib, global_best, chan, src, their_cost,
                    best_path_to_show, output >>

\* worker(): MPI_Send of TAG_REQ
Way1SendReq(r) ==
    /\ r # 0
    /\ rpc[r] = "w1_worker_request"
    /\ reqs' = reqs \cup { r }
    /\ rpc' = [rpc EXCEPT ![r] = "w1_worker_probe"]
    /\ UNCHANGED << queue, done, reply, expansions >>
    /\ UNCHANGED memvars
    /\ UNCHANGED << lbs, file, N, W, T, dist, my_tasks, stack, tpc, cur, lock, best_cost,
                    best_path, contrib, global_best, chan, src, their_cost,
                    best_path_to_show, output >>

\* worker(): MPI_Probe, then recv_task and dfs_from_task (root node
\* pushed), or the receive of TAG_NOWORK and the break
Way1RecvReply(r) ==
    /\ r # 0
    /\ rpc[r] = "w1_worker_probe"
    /\ reply[r].tag # "none"
    /\ IF reply[r].tag = "work"
       THEN /\ stack' = [stack EXCEPT ![r][0] = << V1RootNode(reply[r].task) >>]
            /\ cap' = [cap EXCEPT ![r] = init_cap]
            /\ rpc' = [rpc EXCEPT ![r] = "w1_dfs"]
       ELSE /\ rpc' = [rpc EXCEPT ![r] = "w1_reduce"]
            /\ UNCHANGED << stack, cap >>
    /\ reply' = [reply EXCEPT ![r] = NoReply]
    /\ UNCHANGED << queue, done, reqs, expansions, init_cap, dropped >>
    /\ UNCHANGED << lbs, file, N, W, T, dist, my_tasks, tpc, cur, lock, best_cost,
                    best_path, contrib, global_best, chan, src, their_cost,
                    best_path_to_show, output >>

\* one iteration of the loop of dfs_from_task: pop; prune; or close the
\* tour and commit; or expand.  A push that finds sp == cap doubles cap
\* with realloc; realloc may return NULL, and the rank then calls
\* MPI_Abort.
Way1DfsStep(r) ==
    /\ rpc[r] = "w1_dfs"
    /\ Len(stack[r][0]) > 0
    /\ LET sp == Len(stack[r][0])
           n == stack[r][0][sp]
           rest == SubSeq(stack[r][0], 1, sp - 1)
           tourCost == n.cost + dist[n.city][0]
           pushed == V1PushChildren(rest, n, 0, best_cost[r])
       IN IF V1Pruned(n, best_cost[r])
          THEN /\ stack' = [stack EXCEPT ![r][0] = rest]
               /\ UNCHANGED << best_cost, best_path, rpc, cap >>
          ELSE IF n.depth = N
          THEN /\ stack' = [stack EXCEPT ![r][0] = rest]
               /\ IF tourCost < best_cost[r]
                  THEN /\ best_cost' = [best_cost EXCEPT ![r] = tourCost]
                       /\ best_path' = [best_path EXCEPT ![r] =
                                          [i \in 0 .. N |->
                                             IF i < N THEN n.path[i + 1] ELSE 0]]
                  ELSE UNCHANGED << best_cost, best_path >>
               /\ UNCHANGED << rpc, cap >>
          ELSE \/ /\ stack' = [stack EXCEPT ![r][0] = pushed]
                  /\ cap' = [cap EXCEPT ![r] = GrownCap(cap[r], Len(pushed))]
                  /\ UNCHANGED << best_cost, best_path, rpc >>
               \/ /\ NeedsRealloc(cap[r], Len(pushed))
                  /\ rpc' = MPI_Abort
                  /\ UNCHANGED << stack, cap, best_cost, best_path >>
    /\ UNCHANGED << init_cap, dropped >>
    /\ UNCHANGED v1vars
    /\ UNCHANGED << lbs, file, N, W, T, dist, my_tasks, tpc, cur, lock, contrib,
                    global_best, chan, src, their_cost, best_path_to_show,
                    output >>

\* dfs_from_task returns when its stack is empty: the master goes to its
\* next task, a worker sends its next request
Way1DfsReturn(r) ==
    /\ rpc[r] = "w1_dfs"
    /\ Len(stack[r][0]) = 0
    /\ rpc' = [rpc EXCEPT ![r] = IF r = 0 THEN "w1_master_solo"
                                 ELSE "w1_worker_request"]
    /\ UNCHANGED v1vars
    /\ UNCHANGED memvars
    /\ UNCHANGED << lbs, file, N, W, T, dist, my_tasks, stack, tpc, cur, lock, best_cost,
                    best_path, contrib, global_best, chan, src, their_cost,
                    best_path_to_show, output >>

\* main, world > 1, a worker calls MPI_Reduce: it hands in best_cost
Way1ReduceSend(r) ==
    /\ r # 0
    /\ rpc[r] = "w1_reduce"
    /\ contrib' = [contrib EXCEPT ![r] = best_cost[r]]
    /\ rpc' = [rpc EXCEPT ![r] = "w1_send_cost"]
    /\ UNCHANGED v1vars
    /\ UNCHANGED memvars
    /\ UNCHANGED << lbs, file, N, W, T, dist, my_tasks, stack, tpc, cur, lock, best_cost,
                    best_path, global_best, chan, src, their_cost,
                    best_path_to_show, output >>

\* mutation: rank 0 takes the value of the first worker instead of the
\* minimum over all ranks
Way1ReduceRoot_FirstWorker ==
    /\ rpc[0] = "w1_reduce"
    /\ \A q \in Ranks \ { 0 } : contrib[q] # NoValue
    /\ global_best' = [global_best EXCEPT ![0] =
                         IF W > 1 THEN contrib[1] ELSE best_cost[0]]
    /\ contrib' = [contrib EXCEPT ![0] = best_cost[0]]
    /\ best_path_to_show' = best_path[0]
    /\ src' = 1
    /\ rpc' = [rpc EXCEPT ![0] = IF 1 < W THEN "w1_recv_cost" ELSE "w1_print"]
    /\ UNCHANGED v1vars
    /\ UNCHANGED memvars
    /\ UNCHANGED << lbs, file, N, W, T, dist, my_tasks, stack, tpc, cur, lock, best_cost,
                    best_path, chan, their_cost, output >>

\* main, rank 0.  world > 1: MPI_Reduce with MPI_MIN over its own and all
\* workers' values, then the copy of its own path and the start of the
\* loop over src.  world == 1: global_best = best_cost and the copy.
Way1ReduceRoot ==
    /\ rpc[0] = "w1_reduce"
    /\ \A q \in Ranks \ { 0 } : contrib[q] # NoValue
    /\ global_best' = [global_best EXCEPT ![0] =
                         MinOf({ best_cost[0] } \cup
                               { contrib[q] : q \in Ranks \ { 0 } })]
    /\ contrib' = [contrib EXCEPT ![0] = best_cost[0]]
    /\ best_path_to_show' = best_path[0]
    /\ src' = 1
    /\ rpc' = [rpc EXCEPT ![0] = IF 1 < W THEN "w1_recv_cost" ELSE "w1_print"]
    /\ UNCHANGED v1vars
    /\ UNCHANGED memvars
    /\ UNCHANGED << lbs, file, N, W, T, dist, my_tasks, stack, tpc, cur, lock, best_cost,
                    best_path, chan, their_cost, output >>

\* rank 0: MPI_Recv(&worker_cost, 1, MPI_INT, src, TAG_COST, ...)
Way1RecvCost ==
    /\ rpc[0] = "w1_recv_cost"
    /\ FirstWithTag(chan[src], TAG_COST, 1) # 0
    /\ LET k == FirstWithTag(chan[src], TAG_COST, 1)
       IN /\ their_cost' = chan[src][k].cost
          /\ chan' = [chan EXCEPT ![src] = RemoveAt(chan[src], k)]
    /\ rpc' = [rpc EXCEPT ![0] = "w1_recv_path"]
    /\ UNCHANGED v1vars
    /\ UNCHANGED memvars
    /\ UNCHANGED << lbs, file, N, W, T, dist, my_tasks, stack, tpc, cur, lock, best_cost,
                    best_path, contrib, global_best, src, best_path_to_show,
                    output >>

\* rank 0: MPI_Recv(worker_path, N + 1, MPI_INT, src, TAG_PATH, ...); the
\* path is kept when worker_cost == global_best
Way1RecvPath ==
    /\ rpc[0] = "w1_recv_path"
    /\ FirstWithTag(chan[src], TAG_PATH, 1) # 0
    /\ LET k == FirstWithTag(chan[src], TAG_PATH, 1)
       IN /\ best_path_to_show' = IF their_cost = global_best[0]
                                  THEN chan[src][k].path
                                  ELSE best_path_to_show
          /\ chan' = [chan EXCEPT ![src] = RemoveAt(chan[src], k)]
    /\ src' = src + 1
    /\ rpc' = [rpc EXCEPT ![0] = IF src + 1 < W THEN "w1_recv_cost"
                                 ELSE "w1_print"]
    /\ UNCHANGED v1vars
    /\ UNCHANGED memvars
    /\ UNCHANGED << lbs, file, N, W, T, dist, my_tasks, stack, tpc, cur, lock, best_cost,
                    best_path, contrib, global_best, their_cost, output >>

\* a worker: MPI_Send(&best_cost, 1, MPI_INT, 0, TAG_COST, ...)
Way1SendCost(r) ==
    /\ r # 0
    /\ rpc[r] = "w1_send_cost"
    /\ chan' = [chan EXCEPT ![r] = Append(chan[r],
                  [tag |-> TAG_COST, cost |-> best_cost[r],
                   path |-> best_path[r]])]
    /\ rpc' = [rpc EXCEPT ![r] = "w1_send_path"]
    /\ UNCHANGED v1vars
    /\ UNCHANGED memvars
    /\ UNCHANGED << lbs, file, N, W, T, dist, my_tasks, stack, tpc, cur, lock, best_cost,
                    best_path, contrib, global_best, src, their_cost,
                    best_path_to_show, output >>

\* a worker: MPI_Send(best_path, N + 1, MPI_INT, 0, TAG_PATH, ...)
Way1SendPath(r) ==
    /\ r # 0
    /\ rpc[r] = "w1_send_path"
    /\ chan' = [chan EXCEPT ![r] = Append(chan[r],
                  [tag |-> TAG_PATH, cost |-> NoValue,
                   path |-> best_path[r]])]
    /\ rpc' = [rpc EXCEPT ![r] = "w1_finalize"]
    /\ UNCHANGED v1vars
    /\ UNCHANGED memvars
    /\ UNCHANGED << lbs, file, N, W, T, dist, my_tasks, stack, tpc, cur, lock, best_cost,
                    best_path, contrib, global_best, src, their_cost,
                    best_path_to_show, output >>

\* rank 0: the cost, and the path when global_best < INT_MAX
Way1Print ==
    /\ rpc[0] = "w1_print"
    /\ output' = [printed |-> TRUE,
                  cost |-> global_best[0],
                  has_path |-> global_best[0] < INT_MAX,
                  path |-> IF global_best[0] < INT_MAX
                           THEN [k \in 1 .. (N + 1) |-> best_path_to_show[k - 1]]
                           ELSE << >>]
    /\ rpc' = [rpc EXCEPT ![0] = "w1_finalize"]
    /\ UNCHANGED v1vars
    /\ UNCHANGED memvars
    /\ UNCHANGED << lbs, file, N, W, T, dist, my_tasks, stack, tpc, cur, lock, best_cost,
                    best_path, contrib, global_best, chan, src, their_cost,
                    best_path_to_show >>

Way1Finalize(r) ==
    /\ rpc[r] = "w1_finalize"
    /\ rpc' = [rpc EXCEPT ![r] = "w1_done"]
    /\ UNCHANGED v1vars
    /\ UNCHANGED memvars
    /\ UNCHANGED << lbs, file, N, W, T, dist, my_tasks, stack, tpc, cur, lock, best_cost,
                    best_path, contrib, global_best, chan, src, their_cost,
                    best_path_to_show, output >>

NextWay1 ==
    \/ Way1MasterSeed
    \/ Way1MasterSolo
    \/ Way1MasterServe
    \/ Way1MasterReturn
    \/ \E r \in Ranks : Way1SendReq(r)
    \/ \E r \in Ranks : Way1RecvReply(r)
    \/ \E r \in Ranks : Way1DfsStep(r)
    \/ \E r \in Ranks : Way1DfsReturn(r)
    \/ \E r \in Ranks : Way1ReduceSend(r)
    \/ Way1ReduceRoot
    \/ Way1RecvCost
    \/ Way1RecvPath
    \/ \E r \in Ranks : Way1SendCost(r)
    \/ \E r \in Ranks : Way1SendPath(r)
    \/ Way1Print
    \/ \E r \in Ranks : Way1Finalize(r)

(* ================================================================== *)
(* Way2 owner-computes solver: the search and main (README.md:194-460) *)
(*                                                                     *)
(* distributed_search (above) leaves a rank in dfs_with_periodic_sync  *)
(* with all its tasks on the stack.  From MPI_Allreduce on, main is    *)
(* the statement sequence of the hybrid solver's main, so a rank that  *)
(* has called MPI_Allreduce continues with AllreduceExit, GatherOwn,   *)
(* RecvCost, RecvPath, SendCost, SendPath, PrintResult and Finalize.   *)
(* ================================================================== *)
\* precompute_bounds: the cheapest edge out of city i
cheapest_edge(i) == RowMinFrom(i, 0, INT_MAX)

RECURSIVE LowerBoundFastFrom(_, _, _)
LowerBoundFastFrom(lb, mask, i) ==
    IF i >= N THEN lb
    ELSE IF Bit(mask, i) = 0
         THEN LowerBoundFastFrom(lb + cheapest_edge(i), mask, i + 1)
    ELSE LowerBoundFastFrom(lb, mask, i + 1)

lower_bound_fast(cost, mask) == LowerBoundFastFrom(cost, mask, 0)

\* one iteration of the loop of dfs_with_periodic_sync: pop; prune; or
\* close the tour and commit; or expand.  A push that finds sp == cap
\* doubles cap with realloc; realloc may return NULL, and the rank then
\* calls MPI_Abort.  Nothing is exchanged with other ranks.
dfs_with_periodic_sync(r) ==
    /\ rpc[r] = "w2_dfs"
    /\ Len(stack[r][0]) > 0
    /\ LET sp == Len(stack[r][0])
           n == stack[r][0][sp]
           rest == SubSeq(stack[r][0], 1, sp - 1)
           tour_cost == n.cost + dist[n.city][0]
           pushed == V1PushChildren(rest, n, 0, best_cost[r])
       IN IF n.cost >= best_cost[r]
             \/ lower_bound_fast(n.cost, n.visitedMask) >= best_cost[r]
          THEN /\ stack' = [stack EXCEPT ![r][0] = rest]
               /\ UNCHANGED << best_cost, best_path, rpc, cap >>
          ELSE IF n.depth = N
          THEN /\ stack' = [stack EXCEPT ![r][0] = rest]
               /\ IF tour_cost < best_cost[r]
                  THEN /\ best_cost' = [best_cost EXCEPT ![r] = tour_cost]
                       /\ best_path' = [best_path EXCEPT ![r] =
                                          [i \in 0 .. N |->
                                             IF i < N THEN n.path[i + 1] ELSE 0]]
                  ELSE UNCHANGED << best_cost, best_path >>
               /\ UNCHANGED << rpc, cap >>
          ELSE \/ /\ stack' = [stack EXCEPT ![r][0] = pushed]
                  /\ cap' = [cap EXCEPT ![r] = GrownCap(cap[r], Len(pushed))]
                  /\ UNCHANGED << best_cost, best_path, rpc >>
               \/ /\ NeedsRealloc(cap[r], Len(pushed))
                  /\ rpc' = MPI_Abort
                  /\ UNCHANGED << stack, cap, best_cost, best_path >>
    /\ UNCHANGED << init_cap, dropped >>
    /\ UNCHANGED v1vars
    /\ UNCHANGED << lbs, file, N, W, T, dist, my_tasks, tpc, cur, lock, contrib,
                    global_best, chan, src, their_cost, best_path_to_show,
                    output >>

\* dfs_with_periodic_sync returns when its stack is empty, and
\* distributed_search returns to main
Way2DfsReturn(r) ==
    /\ rpc[r] = "w2_dfs"
    /\ Len(stack[r][0]) = 0
    /\ rpc' = [rpc EXCEPT ![r] = "w2_allreduce"]
    /\ UNCHANGED v1vars
    /\ UNCHANGED memvars
    /\ UNCHANGED << lbs, file, N, W, T, dist, my_tasks, stack, tpc, cur, lock, best_cost,
                    best_path, contrib, global_best, chan, src, their_cost,
                    best_path_to_show, output >>

\* main: the rank calls MPI_Allreduce and hands in its best_cost
Way2AllreduceEnter(r) ==
    /\ rpc[r] = "w2_allreduce"
    /\ contrib' = [contrib EXCEPT ![r] = best_cost[r]]
    /\ rpc' = [rpc EXCEPT ![r] = "allreduce_wait"]
    /\ UNCHANGED v1vars
    /\ UNCHANGED memvars
    /\ UNCHANGED << lbs, file, N, W, T, dist, my_tasks, stack, tpc, cur, lock, best_cost,
                    best_path, global_best, chan, src, their_cost,
                    best_path_to_show, output >>

\* the ranks exchange nothing before MPI_Allreduce, so their searches
\* commute and are scheduled in rank order, as in the hybrid solver
Way2Turn(r) == \A q \in Ranks : q < r => rpc[q] \notin { "w2_start", "w2_dfs" }

Way2SearchStep(r) ==
    \/ distributed_search(r)
    \/ dfs_with_periodic_sync(r)
    \/ Way2DfsReturn(r)

NextWay2 ==
    \/ \E r \in Ranks : Way2Turn(r) /\ Way2SearchStep(r)
    \/ \E r \in Ranks : Way2AllreduceEnter(r)

(* ------------------------------------------------------------------ *)
(* The four solvers on the same inputs: a run is a run of one solver   *)
(* on a symmetric instance with its number of ranks                    *)
(* ------------------------------------------------------------------ *)
\* after MPI_Bcast and best_cost = INT_MAX; rank 0 at position first,
\* every other rank at position others
SolverStart(first, others) ==
    \E n \in 1 .. MaxN, w \in 1 .. MaxW :
      \E d \in Instances(n) :
        /\ N = n
        /\ W = w
        /\ T = 1
        /\ dist = d
        /\ rpc = [r \in 0 .. (w - 1) |-> IF r = 0 THEN first ELSE others]
        /\ my_tasks = [r \in 0 .. (w - 1) |-> << >>]
        /\ stack = [r \in 0 .. (w - 1) |-> [k \in 0 .. 0 |-> << >>]]
        /\ tpc = [r \in 0 .. (w - 1) |-> [k \in 0 .. 0 |-> "idle"]]
        /\ cur = [r \in 0 .. (w - 1) |-> [k \in 0 .. 0 |-> NoLeaf]]
        /\ lock = [r \in 0 .. (w - 1) |-> NoThread]
        /\ best_cost = [r \in 0 .. (w - 1) |-> INT_MAX]
        /\ best_path = [r \in 0 .. (w - 1) |-> [i \in 0 .. n |-> 0]]
        /\ contrib = [r \in 0 .. (w - 1) |-> NoValue]
        /\ global_best = [r \in 0 .. (w - 1) |-> NoValue]
        /\ chan = [r \in 0 .. (w - 1) |-> << >>]
        /\ src = 0
        /\ their_cost = NoValue
        /\ best_path_to_show = [i \in 0 .. n |-> 0]
        /\ output = NoOutput
        /\ queue = << >>
        /\ done = 0
        /\ reqs = { }
        /\ reply = [r \in 0 .. (w - 1) |-> NoReply]
        /\ expansions = [r \in 0 .. (w - 1) |-> 0]
        /\ init_cap = INIT_CAP
        /\ cap = [r \in 0 .. (w - 1) |-> 0]
        /\ dropped = FALSE
        /\ file = NoFile
        /\ lbs = NoBounds

InitWay1 == SolverStart("w1_master_seed", "w1_worker_request")

InitWay2 == SolverStart("w2_start", "w2_start")

SpecWay1 == InitWay1 /\ [][NextWay1]_vars

\* main of the Way2 solver from MPI_Allreduce on: the statements of the
\* hybrid solver's main
Way2Main ==
    \/ \E r \in Ranks : AllreduceExit(r)
    \/ GatherOwn
    \/ RecvCost
    \/ RecvPath
    \/ \E r \in Ranks : SendCost(r)
    \/ \E r \in Ranks : SendPath(r)
    \/ PrintResult
    \/ \E r \in Ranks : Finalize(r)

SpecWay2 == InitWay2 /\ [][NextWay2 \/ Way2Main]_vars

InitVariants == Init \/ InitV1 \/ InitWay1 \/ InitWay2

NextVariants == Next \/ NextV1 \/ NextWay1 \/ NextWay2

SpecVariants == InitVariants /\ [][NextVariants]_vars

\* no rank can take a step: every rank has returned from main or is
\* blocked in a call that cannot return
Stopped == ~ENABLED NextVariants

(* ------------------------------------------------------------------ *)
(* C20: for the same distance file and the same number of ranks        *)
(* (>= 2), the v1 master/worker, the corrected master/worker, the Way2 *)
(* owner-computes and the hybrid solver all report the same optimal    *)
(* tour cost: whichever solver is run on a symmetric instance of two   *)
(* or more cities with two or more ranks, once no rank can take a      *)
(* further step rank 0 has printed a cost, and it is the optimum.      *)
(* ------------------------------------------------------------------ *)
C20_VariantsReportOptimum ==
    (N >= 2 /\ W >= 2 /\ dist \in Instances(N) /\ Stopped)
        => (output.printed /\ output.cost = Optimum)

(* ------------------------------------------------------------------ *)
(* C21: run with a single rank (W = 1), the v1 master/worker solver    *)
(* searches all N-1 seed tasks and reports the optimal tour cost: the  *)
(* cost it prints for an instance of two or more cities is the         *)
(* optimum, and by then no seed task is left in the master's queue.    *)
(* ------------------------------------------------------------------ *)
C21_V1SingleRank ==
    (W = 1 /\ N >= 2 /\ output.printed)
        => (output.cost = Optimum /\ Len(queue) = 0)

(* ------------------------------------------------------------------ *)
(* Nodes on the stacks of the hybrid solver                            *)
(* ------------------------------------------------------------------ *)
\* the nodes on the stacks of all threads of all ranks
StackNodes ==
    UNION { { stack[r][t][k] : k \in 1 .. Len(stack[r][t]) } :
            r \in Ranks, t \in Threads }

\* the cities path[0 .. depth-1] of a node
PathCities(n) == { n.path[k] : k \in 1 .. n.depth }

\* C22: every Node on any thread's stack (seeds included) satisfies
\* path[0] = 0, 2 <= depth <= N, visitedMask has exactly depth bits set
\* and they are exactly the cities path[0 .. depth-1], city =
\* path[depth-1], and cost = sum of dist[path[k]][path[k+1]] over the
\* edges of the prefix.
C22_NodeInvariant ==
    \A n \in StackNodes :
        /\ 2 <= n.depth /\ n.depth <= N
        /\ Len(n.path) >= n.depth
        /\ n.path[1] = 0
        /\ PathCities(n) \subseteq Cities
        /\ Cardinality(PathCities(n)) = n.depth
        /\ n.visitedMask < Pow2(N)
        /\ \A c \in Cities : Bit(n.visitedMask, c) = 1 <=> c \in PathCities(n)
        /\ n.city = n.path[n.depth]
        /\ n.cost = EdgeSum(SubSeq(n.path, 1, n.depth))

\* a stack holds a seed below a node of depth N that the search pushed
C22_Witness ==
    /\ N >= 4
    /\ \E r \in Ranks, t \in Threads :
         /\ Len(stack[r][t]) >= 2
         /\ stack[r][t][1].depth = 2
         /\ stack[r][t][Len(stack[r][t])].depth = N

\* C23: for every Node on a hybrid-solver stack, parent_lb equals the
\* from-scratch Scheme-B bound lower_bound_2edge(cost, visitedMask), at
\* every depth; consequently parent_lb >= cost.
C23_IncrementalBoundExact ==
    \A n \in StackNodes :
        /\ n.parent_lb = lower_bound_2edge(n.cost, n.visitedMask)
        /\ n.parent_lb >= n.cost

\* a node three levels below the root whose bound still exceeds its cost
C23_Witness ==
    \E n \in StackNodes :
        /\ n.depth >= 3
        /\ n.depth < N
        /\ n.parent_lb > n.cost

(* ================================================================== *)
(* The bound functions on their own                                    *)
(*                                                                     *)
(* lower_bound (v1 and corrected master/worker), lower_bound_fast      *)
(* (Way2) and lower_bound_2edge (hybrid) are called on one partial     *)
(* tour of a symmetric instance; the partial tour is the single Node   *)
(* on the stack of rank 0.                                             *)
(* ================================================================== *)
\* instances of up to MaxBoundN cities with distances 0 .. MaxBoundDist
MaxBoundN == 4

MaxBoundDist == 2

\* the index pairs below the diagonal
LowerPairs(n) == { p \in (0 .. (n - 1)) \X (0 .. (n - 1)) : p[2] < p[1] }

\* every symmetric n x n matrix with a zero diagonal and distances in
\* 0 .. MaxBoundDist
SymmetricMatrices(n) ==
    { [i \in 0 .. (n - 1) |->
         [j \in 0 .. (n - 1) |->
            IF i = j THEN 0
            ELSE IF j < i THEN e[<< i, j >>] ELSE e[<< j, i >>]]] :
      e \in [LowerPairs(n) -> 0 .. MaxBoundDist] }

\* every prefix of a tour of n cities: city 0, then distinct other cities
Prefixes(n) ==
    UNION { { << 0 >> \o p : p \in Perms(S) } : S \in SUBSET (1 .. (n - 1)) }

RECURSIVE MaskOf(_)
MaskOf(p) == IF p = << >> THEN 0 ELSE Pow2(Head(p)) + MaskOf(Tail(p))

\* the Node of a prefix on the matrix d
PrefixNode(d, p) ==
    [city |-> p[Len(p)],
     depth |-> Len(p),
     cost |-> IF Len(p) < 2 THEN 0
              ELSE LET RECURSIVE Sum(_)
                       Sum(k) == IF k >= Len(p) THEN 0
                                 ELSE d[p[k]][p[k + 1]] + Sum(k + 1)
                   IN Sum(1),
     visitedMask |-> MaskOf(p),
     path |-> p]

InitBound ==
    \E n \in 1 .. MaxBoundN :
      \E d \in SymmetricMatrices(n), p \in Prefixes(n) :
        /\ N = n
        /\ W = 1
        /\ T = 1
        /\ dist = d
        /\ rpc = [r \in 0 .. 0 |-> "lb_call"]
        /\ my_tasks = [r \in 0 .. 0 |-> << >>]
        /\ stack = [r \in 0 .. 0 |-> [k \in 0 .. 0 |-> << PrefixNode(d, p) >>]]
        /\ tpc = [r \in 0 .. 0 |-> [k \in 0 .. 0 |-> "idle"]]
        /\ cur = [r \in 0 .. 0 |-> [k \in 0 .. 0 |-> NoLeaf]]
        /\ lock = [r \in 0 .. 0 |-> NoThread]
        /\ best_cost = [r \in 0 .. 0 |-> INT_MAX]
        /\ best_path = [r \in 0 .. 0 |-> [i \in 0 .. n |-> 0]]
        /\ contrib = [r \in 0 .. 0 |-> NoValue]
        /\ global_best = [r \in 0 .. 0 |-> NoValue]
        /\ chan = [r \in 0 .. 0 |-> << >>]
        /\ src = 0
        /\ their_cost = NoValue
        /\ best_path_to_show = [i \in 0 .. n |-> 0]
        /\ output = NoOutput
        /\ queue = << >>
        /\ done = 0
        /\ reqs = { }
        /\ reply = [r \in 0 .. 0 |-> NoReply]
        /\ expansions = [r \in 0 .. 0 |-> 0]
        /\ init_cap = INIT_CAP
        /\ cap = [r \in 0 .. 0 |-> 0]
        /\ dropped = FALSE
        /\ file = NoFile
        /\ lbs = NoBounds

\* the three bound functions are called on the Node's cost and mask
CallBounds ==
    /\ rpc[0] = "lb_call"
    /\ LET n == stack[0][0][1]
       IN lbs' = [called |-> TRUE,
                  a |-> lower_bound(n.cost, n.visitedMask),
                  fast |-> lower_bound_fast(n.cost, n.visitedMask),
                  b |-> lower_bound_2edge(n.cost, n.visitedMask)]
    /\ rpc' = [rpc EXCEPT ![0] = "lb_done"]
    /\ UNCHANGED v1vars
    /\ UNCHANGED memvars
    /\ UNCHANGED << file, N, W, T, dist, my_tasks, stack, tpc, cur, lock, best_cost,
                    best_path, contrib, global_best, chan, src, their_cost,
                    best_path_to_show, output >>

NextBound == CallBounds

SpecBound == InitBound /\ [][NextBound]_vars

\* the complete tours, return edge to city 0 included, that extend a Node
Extensions(n) ==
    { SubSeq(n.path, 1, n.depth) \o p \o << 0 >> :
        p \in Perms({ c \in Cities : Bit(n.visitedMask, c) = 0 }) }

\* C24: for every symmetric non-negative matrix and every valid partial
\* tour, the Scheme-A bound (lower_bound, lower_bound_fast) and the
\* Scheme-B bound (lower_bound_2edge) are each <= the cost of every
\* complete tour, return edge included, that extends the partial tour.
C24_BoundsAdmissible ==
    lbs.called =>
        \A e \in Extensions(stack[0][0][1]) :
            /\ lbs.a <= EdgeSum(e)
            /\ lbs.fast <= EdgeSum(e)
            /\ lbs.b <= EdgeSum(e)

\* both schemes add something to the cost of a first-hop prefix of a
\* four-city instance, and Scheme B gives the larger value
C24_Witness ==
    /\ lbs.called
    /\ N >= 4
    /\ stack[0][0][1].depth = 2
    /\ lbs.a > stack[0][0][1].cost
    /\ lbs.fast = lbs.a
    /\ lbs.b > lbs.a

(* ------------------------------------------------------------------ *)
(* Pruning in the hybrid DFS                                           *)
(* ------------------------------------------------------------------ *)
\* thread t of rank r is about to pop a node
AtPop(r, t) ==
    /\ rpc[r] = "search"
    /\ tpc[r][t] = "loop"
    /\ Len(stack[r][t]) > 0

\* the complete tours that are still under search after thread t of rank
\* r has popped a node: the completions of the nodes it pushed in the
\* step, and the tour it goes on to commit
KeptTours(r, t) ==
    UNION { Extensions(stack'[r][t][k]) :
              k \in Len(stack[r][t]) .. Len(stack'[r][t]) }
    \cup (IF tpc'[r][t] = "critical"
          THEN { cur'[r][t].path \o << 0 >> }
          ELSE { })

\* C25: whenever a popped Node is discarded or a child is skipped by the
\* cost test, the lower-bound test or the closing-cost test at depth
\* N-1, no complete tour extending that Node or child costs strictly
\* less than the shared best_cost at that moment: every completion of
\* the popped Node that is no longer under search after the step costs
\* at least best_cost.
C25_PruningSafe ==
    [][\A r \in Ranks, t \in Threads :
          (AtPop(r, t) /\ stack'[r][t] # stack[r][t]) =>
              \A e \in Extensions(stack[r][t][Len(stack[r][t])]) \ KeptTours(r, t) :
                  EdgeSum(e) >= best_cost[r]]_vars

\* a thread is about to pop an inner node that passes the cost test and
\* is discarded by the lower-bound test
C25_Witness ==
    \E r \in Ranks, t \in Threads :
        /\ AtPop(r, t)
        /\ stack[r][t][Len(stack[r][t])].depth < N
        /\ stack[r][t][Len(stack[r][t])].cost < best_cost[r]
        /\ stack[r][t][Len(stack[r][t])].parent_lb >= best_cost[r]

(* ------------------------------------------------------------------ *)
(* The hybrid solver on square inputs that are not symmetric           *)
(*                                                                     *)
(* read_distance_file copies the N * N numbers of a square file as     *)
(* they are (part_001:294-297), so dist[i][j] and dist[j][i] may       *)
(* differ.                                                             *)
(* ------------------------------------------------------------------ *)
\* the three-city file 3 / 0 1 0 / 0 0 0 / 0 2 0
AsymScenario(n) ==
    IF n = 3 THEN { FromRows(<< <<0, 1, 0>>, <<0, 0, 0>>, <<0, 2, 0>> >>) }
    ELSE { }

AsymInstances(n) ==
    { SquareMatrix(n, k) : k \in 0 .. MaxInst } \cup AsymScenario(n)

InitAsym ==
    HybridStartOn(MAX_STACK_SIZE, [n \in 1 .. MaxN |-> AsymInstances(n)])

SpecAsym == InitAsym /\ [][Next]_vars

\* C26: for a square input that is not symmetric the hybrid solver still
\* reports the minimum cost over all directed Hamiltonian cycles from
\* city 0 back to city 0.
C26_AsymmetricOptimum ==
    (output.printed /\ N >= 2) => output.cost = Optimum

(* ------------------------------------------------------------------ *)
(* C27: commits to the best-solution cell are serialised and lose no   *)
(* update.  At most one thread is inside the commit section; best_cost *)
(* changes only to the tour cost of a thread at the section, and only  *)
(* to a strictly smaller value; best_path is written only by the       *)
(* thread inside the section, whose tour cost is the best_cost it has  *)
(* just written; and when a thread is through with its attempt,        *)
(* best_cost is at most the cost it attempted.  So the final best_cost *)
(* is the minimum of all tour costs any thread attempted to commit.    *)
(* ------------------------------------------------------------------ *)
C27_CommitsSerialised ==
    [][\A r \in Ranks :
          /\ Cardinality({ t \in Threads : tpc'[r][t] = "write_path" }) <= 1
          /\ \A t \in Threads : tpc'[r][t] = "write_path" => lock'[r] = t
          /\ best_cost'[r] # best_cost[r] =>
                /\ best_cost'[r] < best_cost[r]
                /\ \E t \in Threads : /\ tpc[r][t] = "critical"
                                      /\ tpc'[r][t] = "write_path"
                                      /\ cur[r][t].tour_cost = best_cost'[r]
          /\ best_path'[r] # best_path[r] =>
                \E t \in Threads : /\ tpc[r][t] = "write_path"
                                   /\ lock[r] = t
                                   /\ cur[r][t].tour_cost = best_cost[r]
                                   /\ best_cost'[r] = best_cost[r]
          /\ \A t \in Threads :
                (tpc[r][t] = "critical" /\ tpc'[r][t] # "critical") =>
                    best_cost'[r] <= cur[r][t].tour_cost]_vars

\* one thread is inside the section while another waits at it with a
\* tour that its re-check will refuse
C27_Witness ==
    \E r \in Ranks : \E t1, t2 \in Threads :
        /\ t1 # t2
        /\ tpc[r][t1] = "write_path"
        /\ tpc[r][t2] = "critical"
        /\ cur[r][t2].tour_cost > best_cost[r]

(* ================================================================== *)
(* Branch ordering                                                     *)
(*                                                                     *)
(* Runs of the hybrid solver on instances of MaxOrderN cities with     *)
(* distances 0 .. MaxOrderDist, where a Node below a seed has three    *)
(* children to sort and edges of equal cost are frequent.              *)
(* ================================================================== *)
MaxOrderN == 5

MaxOrderDist == 1

MaxOrderW == 2

\* every symmetric n x n matrix with a zero diagonal and distances in
\* 0 .. MaxOrderDist
OrderMatrices(n) ==
    { [i \in 0 .. (n - 1) |->
         [j \in 0 .. (n - 1) |->
            IF i = j THEN 0
            ELSE IF j < i THEN e[<< i, j >>] ELSE e[<< j, i >>]]] :
      e \in [LowerPairs(n) -> 0 .. MaxOrderDist] }

InitOrder ==
    HybridStartFor(MAX_STACK_SIZE, { MaxOrderN }, 1 .. MaxOrderW, { 1 },
                   [n \in { MaxOrderN } |-> OrderMatrices(n)])

SpecOrder == InitOrder /\ [][Next]_vars

\* the Node that was expanded to push a
ParentCity(a) == a.path[a.depth - 1]

\* a and b were pushed by the expansion of the same Node
Siblings(a, b) ==
    /\ a.depth = b.depth
    /\ SubSeq(a.path, 1, a.depth - 1) = SubSeq(b.path, 1, b.depth - 1)

\* stk, bottom to top
BranchOrdered(stk) ==
    \A k, m \in 1 .. Len(stk) :
        k < m =>
            LET a == stk[k]
                b == stk[m]
            IN /\ b.depth >= a.depth
               /\ SubSeq(b.path, 1, a.depth - 1) = SubSeq(a.path, 1, a.depth - 1)
               /\ (Siblings(a, b) /\ a.depth >= 3) =>
                     dist[ParentCity(a)][b.city] <= dist[ParentCity(a)][a.city]

\* C28: when a Node is expanded, its surviving children are popped in
\* order of non-decreasing dist[n.city][j], the child reached by the
\* cheapest edge first, and each sibling's whole subtree is explored
\* before the next sibling is popped: a step of a thread leaves all but
\* the top of its stack in place, and on every stack whatever lies above
\* a Node is a sibling reached by an edge that is no dearer, or a
\* descendant of such a sibling.
C28_BranchOrdering ==
    [][\A r \in Ranks, t \in Threads :
          /\ BranchOrdered(stack'[r][t])
          /\ (Len(stack[r][t]) > 0 /\ stack'[r][t] # stack[r][t]) =>
                /\ Len(stack'[r][t]) >= Len(stack[r][t]) - 1
                /\ SubSeq(stack'[r][t], 1, Len(stack[r][t]) - 1)
                      = SubSeq(stack[r][t], 1, Len(stack[r][t]) - 1)]_vars

\* three children of one Node are on a stack and the top one is reached
\* by a strictly cheaper edge than the bottom one
C28_Witness ==
    \E r \in Ranks, t \in Threads :
        \E k \in 1 .. Len(stack[r][t]) :
            /\ k + 2 <= Len(stack[r][t])
            /\ stack[r][t][k].depth >= 3
            /\ Siblings(stack[r][t][k], stack[r][t][k + 1])
            /\ Siblings(stack[r][t][k], stack[r][t][k + 2])
            /\ dist[ParentCity(stack[r][t][k])][stack[r][t][k + 2].city]
                  < dist[ParentCity(stack[r][t][k])][stack[r][t][k].city]

\* C29: among sibling children with equal edge cost dist[n.city][j] the
\* pop order is by ascending city index: of two such siblings on a
\* stack, the one nearer the top has the smaller index.
C29_TiesByCityIndex ==
    \A r \in Ranks, t \in Threads :
        \A k, m \in 1 .. Len(stack[r][t]) :
            LET a == stack[r][t][k]
                b == stack[r][t][m]
            IN (/\ k < m
                /\ a.depth >= 3
                /\ Siblings(a, b)
                /\ dist[ParentCity(a)][a.city] = dist[ParentCity(a)][b.city])
               => b.city < a.city

(* ------------------------------------------------------------------ *)
(* C30: a rank contributes its best_cost to the global minimum         *)
(* reduction only after all of its threads have emptied their stacks   *)
(* and left the parallel region; no write to that rank's best_cost or  *)
(* best_path happens after the contribution, so the (cost, path) pair  *)
(* the rank later sends to rank 0 is the pair that entered the         *)
(* reduction.                                                          *)
(* ------------------------------------------------------------------ *)
C30_SearchBeforeReduction ==
    [][\A r \in Ranks :
          contrib'[r] # NoValue =>
              /\ \A t \in Threads :
                    /\ Len(stack'[r][t]) = 0
                    /\ tpc'[r][t] \notin { "loop", "critical", "write_path" }
              /\ lock'[r] = NoThread
              /\ contrib'[r] = best_cost'[r]
              /\ contrib[r] # NoValue =>
                    /\ best_cost'[r] = best_cost[r]
                    /\ best_path'[r] = best_path[r]
              /\ \A k \in 1 .. Len(chan'[r]) :
                    /\ chan'[r][k].tag = TAG_COST_MSG =>
                          chan'[r][k].cost = contrib'[r]
                    /\ chan'[r][k].tag = TAG_PATH_MSG =>
                          chan'[r][k].path = best_path'[r]]_vars

\* a rank of two threads that found a tour has both its messages in
\* flight to rank 0
C30_Witness ==
    \E r \in Ranks :
        /\ r # 0
        /\ T >= 2
        /\ best_cost[r] < INT_MAX
        /\ Len(chan[r]) = 2
        /\ chan[r][1].cost = contrib[r]
        /\ chan[r][2].path = best_path[r]

(* ================================================================== *)
(* The path-gather of the three solvers that have one: the hybrid      *)
(* solver, the Way2 owner-computes solver (the same statements) and    *)
(* the corrected master/worker solver                                  *)
(* ================================================================== *)
InitGather == Init \/ InitWay1 \/ InitWay2

NextGather == Next \/ NextWay1 \/ NextWay2

SpecGather == InitGather /\ [][NextGather]_vars

\* the messages rank r has passed to MPI_Send in the gather, by its
\* position in main
SentBy(r) ==
    IF rpc[r] \in { "send_path", "w1_send_path" } THEN 1
    ELSE IF rpc[r] \in { "finalize", "done", "w1_finalize", "w1_done" } THEN 2
    ELSE 0

\* the messages of rank r that rank 0 has taken with MPI_Recv, by the
\* position of rank 0 in its loop over src
ReceivedFrom(r) ==
    IF src > r THEN 2
    ELSE IF src = r /\ rpc[0] \in { "recv_path", "w1_recv_path" } THEN 1
    ELSE 0

\* the kind of a gather message, from its tag
GatherKind(m) == IF m.tag \in { TAG_COST_MSG, TAG_COST } THEN "cost" ELSE "path"

\* every rank has returned from main
AllFinalised == \A r \in Ranks : rpc[r] \in { "done", "w1_done" }

(* ------------------------------------------------------------------ *)
(* C31: path-gather protocol, for every W >= 1.  Every non-zero rank   *)
(* sends one cost message and then one path message to rank 0, and     *)
(* rank 0 receives these two from each rank in increasing rank order,  *)
(* whether or not the cost is global_best: at every moment the         *)
(* messages of rank r still in flight are exactly the part of          *)
(* <<cost, path>> that r has sent and rank 0, by its loop index, has   *)
(* not yet received.  The phase never deadlocks and leaves no message  *)
(* unreceived: when no rank can take a step, every rank has finalised  *)
(* and every channel is empty.                                         *)
(* ------------------------------------------------------------------ *)
C31_PathGatherProtocol ==
    /\ \A r \in Ranks \ { 0 } :
         /\ ReceivedFrom(r) <= SentBy(r)
         /\ [k \in 1 .. Len(chan[r]) |-> GatherKind(chan[r][k])]
              = SubSeq(<< "cost", "path" >>, ReceivedFrom(r) + 1, SentBy(r))
    /\ Stopped => AllFinalised
    /\ AllFinalised => \A r \in Ranks : chan[r] = << >>

\* three ranks have finalised, and rank 0 has received both messages of
\* a rank whose cost is not the global best and of a rank whose cost is
C31_Witness ==
    /\ W = 3
    /\ AllFinalised
    /\ output.printed
    /\ \E r \in Ranks \ { 0 } : best_cost[r] # global_best[0]
    /\ \E r \in Ranks \ { 0 } : best_cost[r] = global_best[0]
    /\ \A r \in Ranks : chan[r] = << >>

(* ================================================================== *)
(* The two master/worker solvers together: the v1 solver (wsp-mpi.c)   *)
(* and the corrected master/worker solver (part_001:656-1012)          *)
(* ================================================================== *)
InitDispatch == InitV1 \/ InitWay1

NextDispatch == NextV1 \/ NextWay1

SpecDispatch == InitDispatch /\ [][NextDispatch]_vars

Workers == Ranks \ { 0 }

\* master() has built its queue / has left its loop
MasterSeeded == rpc[0] \notin { "v1_master_seed", "w1_master_seed" }

MasterReturned ==
    rpc[0] \notin { "v1_master_seed", "w1_master_seed",
                    "v1_master_loop", "w1_master_loop" }

\* the Tasks still in the master's queue, and those sent with TAG_WORK
\* and not yet received
QueueTasks == { queue[k] : k \in 1 .. Len(queue) }

WorkInFlight == { r \in Workers : reply[r].tag = "work" }

InFlightTasks == { reply[r].task : r \in WorkInFlight }

\* the N-1 Tasks master() seeds its queue with
MasterSeeds == { SeedTask(k) : k \in 1 .. (N - 1) }

\* a worker between its MPI_Send of TAG_REQ and the receive of the answer
Outstanding(r) == r \in reqs \/ reply[r].tag # "none"

\* what holds of the queue, the requests and the answers in a state
DispatchState ==
    /\ QueueTasks \cup InFlightTasks \subseteq MasterSeeds
    /\ Len(queue) + Cardinality(WorkInFlight)
         = Cardinality(QueueTasks \cup InFlightTasks)
    /\ MasterReturned => QueueTasks \cup InFlightTasks = { }
    /\ \A r \in Workers :
         /\ reply[r].tag = "nowork" => Len(queue) = 0
         /\ ~(r \in reqs /\ reply[r].tag # "none")
         /\ Outstanding(r) => rpc[r] \in { "v1_worker_probe", "w1_worker_probe" }

(* ------------------------------------------------------------------ *)
(* C32: master/worker dispatch safety, v1 and corrected master/worker  *)
(* with W >= 2.  master() starts with the N-1 distinct seed Tasks;     *)
(* from then on a Task is at most once in the queue or in a TAG_WORK   *)
(* message, it leaves them only by being received by the one worker    *)
(* the message was sent to, which starts dfs_from_task on it, and none *)
(* is left when the master returns (never twice, never dropped).       *)
(* TAG_NOWORK is sent only when the queue is empty.  A worker has at   *)
(* most one request outstanding: it sends TAG_REQ only when neither a  *)
(* request nor an answer of its own is in flight.                      *)
(* ------------------------------------------------------------------ *)
C32_DispatchSafety ==
    [][ W >= 2 =>
          /\ (~MasterSeeded /\ MasterSeeded')
                => /\ QueueTasks' = MasterSeeds
                   /\ Len(queue') = N - 1
                   /\ WorkInFlight' = { }
          /\ MasterSeeded =>
               /\ DispatchState
               /\ DispatchState'
               /\ \/ QueueTasks' \cup InFlightTasks' = QueueTasks \cup InFlightTasks
                  \/ \E r \in WorkInFlight :
                       /\ QueueTasks' \cup InFlightTasks'
                            = (QueueTasks \cup InFlightTasks) \ { reply[r].task }
                       /\ stack'[r][0] = << V1RootNode(reply[r].task) >>
                       /\ rpc'[r] \in { "v1_dfs", "w1_dfs" }
               /\ \A r \in Workers :
                    /\ (reply[r].tag # "nowork" /\ reply'[r].tag = "nowork")
                          => Len(queue) = 0
                    /\ (r \notin reqs /\ r \in reqs') => ~Outstanding(r)
      ]_vars

\* three seed Tasks and two workers: one Task is still queued and one is
\* in flight to each worker, after both workers' requests were taken
C32_Witness ==
    /\ W = 3
    /\ N = 4
    /\ rpc[0] \in { "v1_master_loop", "w1_master_loop" }
    /\ Len(queue) = 1
    /\ WorkInFlight = { 1, 2 }
    /\ reqs = { }

(* ================================================================== *)
(* The corrected master/worker solver under fair scheduling: every     *)
(* rank is a process of its own, and a step that stays possible is     *)
(* eventually taken                                                    *)
(* ================================================================== *)
FairSpecWay1 == SpecWay1 /\ WF_vars(NextWay1)

\* master() of the corrected solver has returned
Way1MasterLeft ==
    rpc[0] \in { "w1_reduce", "w1_recv_cost", "w1_recv_path", "w1_print",
                 "w1_finalize", "w1_done" }

\* worker r has left the loop of worker()
Way1WorkerLeft(r) ==
    rpc[r] \in { "w1_reduce", "w1_send_cost", "w1_send_path",
                 "w1_finalize", "w1_done" }

\* the workers TAG_NOWORK was sent to: the message is in flight, or it
\* was received, which is the only way out of the loop of worker()
ToldNoWork == { r \in Workers : reply[r].tag = "nowork" \/ Way1WorkerLeft(r) }

\* every rank has called MPI_Reduce
Way1AllReduced ==
    \A r \in Ranks : rpc[r] \notin { "w1_master_seed", "w1_master_solo",
                                      "w1_master_loop", "w1_worker_request",
                                      "w1_worker_probe", "w1_dfs", "w1_reduce" }

\* the state part of the termination property
Way1TerminationState ==
    W >= 2 =>
      /\ done = Cardinality(ToldNoWork)
      /\ \A r \in Workers :
           /\ ~(reply[r].tag = "nowork" /\ Way1WorkerLeft(r))
           /\ Way1WorkerLeft(r) => r \notin reqs
      /\ Way1MasterLeft =>
           /\ done = W - 1
           /\ ToldNoWork = Workers
           /\ Len(queue) = 0
           /\ \A r \in Workers :
                /\ reply[r].tag # "work"
                /\ Len(stack[r][0]) = 0
                /\ rpc[r] \notin { "w1_dfs", "w1_worker_request" }
           /\ (N >= 2 /\ dist \in Instances(N))
                => MinOf({ best_cost[r] : r \in Workers }) = Optimum

(* ------------------------------------------------------------------ *)
(* C33: termination of the corrected master/worker solver, W >= 2.     *)
(* Every TAG_REQ a worker has sent is eventually answered.  The master *)
(* has sent TAG_NOWORK to exactly `done` workers, never twice to one,  *)
(* and when it returns it has sent one to each of the W-1 workers.  A  *)
(* worker that was sent TAG_NOWORK leaves its loop.  At the moment the *)
(* master returns no seed Task is queued, in flight or being searched, *)
(* no worker will request again, and the workers' best costs already   *)
(* hold the optimum.  All ranks eventually reach the final reduction.  *)
(* ------------------------------------------------------------------ *)
C33_MasterWorkerTermination ==
    /\ []Way1TerminationState
    /\ \A r \in 1 .. (MaxW - 1) :
         /\ (r < W /\ r \in reqs) ~> (r < W /\ reply[r].tag # "none")
         /\ (r < W /\ reply[r].tag = "nowork") ~> (r < W /\ Way1WorkerLeft(r))
    /\ (W >= 2) ~> Way1AllReduced

\* the master has just returned with three ranks and four cities: the
\* last TAG_NOWORK is still in flight and the other worker has left
C33_Witness ==
    /\ W = 3
    /\ N = 4
    /\ rpc[0] = "w1_reduce"
    /\ done = 2
    /\ \E r \in Workers : reply[r].tag = "nowork"
    /\ \E r \in Workers : Way1WorkerLeft(r)
    /\ MinOf({ best_cost[r] : r \in Workers }) = Optimum

\* the node dfs_from_task of rank r pops next
Way1Top(r) == stack[r][0][Len(stack[r][0])]

(* ------------------------------------------------------------------ *)
(* C34: schedule independence of the corrected master/worker solver.   *)
(* For W >= 2 and N >= 2 the global_best reduced at rank 0 is the      *)
(* optimal tour cost in every run, i.e. for every order in which the   *)
(* workers' requests reach the master and every resulting assignment   *)
(* of seed Tasks to workers.  Rank 0 searches nothing (its best_cost   *)
(* stays INT_MAX and its stack empty), and a worker's best_cost        *)
(* changes only to the cost of a tour its own dfs_from_task has closed *)
(* (no best_cost is exchanged during the search).                      *)
(* ------------------------------------------------------------------ *)
C34_ScheduleIndependence ==
    [][ W >= 2 =>
          /\ best_cost[0] = INT_MAX
          /\ best_cost'[0] = INT_MAX
          /\ Len(stack'[0][0]) = 0
          /\ (N >= 2 /\ global_best'[0] # NoValue) => global_best'[0] = Optimum
          /\ (N >= 2 /\ output'.printed) => output'.cost = Optimum
          /\ \A r \in Workers :
               best_cost'[r] # best_cost[r]
                  => /\ rpc[r] = "w1_dfs"
                     /\ Len(stack[r][0]) > 0
                     /\ Way1Top(r).depth = N
                     /\ best_cost'[r] = Way1Top(r).cost + dist[Way1Top(r).city][0]
                     /\ best_cost'[r] < best_cost[r]
      ]_vars

\* a run with two workers in which the optimum was found by the second
\* worker only: the first ended with a worse tour, rank 0 with none
C34_Witness ==
    /\ W = 3
    /\ N = 4
    /\ output.printed
    /\ output.cost = Optimum
    /\ best_cost[0] = INT_MAX
    /\ best_cost[2] = Optimum
    /\ best_cost[1] > Optimum
    /\ best_cost[1] < INT_MAX

(* ================================================================== *)
(* The head of the parallel region of stable_hybrid_dfs for up to      *)
(* MaxSeedN cities and up to MaxSeedT threads per rank                 *)
(* ================================================================== *)
\* largest number of threads per rank and of ranks in this specification
MaxSeedT == 5

MaxSeedRanks == 2

InitThreadSeed ==
    HybridStartFor(MAX_STACK_SIZE, 1 .. MaxSeedN, 1 .. MaxSeedRanks,
                   1 .. MaxSeedT,
                   [n \in 1 .. MaxSeedN |-> { GenMatrix(n, n) }])

SpecThreadSeed == InitThreadSeed /\ [][NextSeed]_vars

\* the values t takes in `for (t = thread_start; t < thread_end; t++)`,
\* i.e. the indices at which initial_tasks is read
ThreadReads(num_tasks, thread_id, num_threads) ==
    LET tasks_per_thread == (num_tasks + num_threads - 1) \div num_threads
        thread_start == thread_id * tasks_per_thread
        thread_end == IF thread_start + tasks_per_thread > num_tasks
                      THEN num_tasks
                      ELSE thread_start + tasks_per_thread
    IN thread_start .. (thread_end - 1)

\* ceil(a / b): the least c with c * b >= a
Ceiling(a, b) == CHOOSE c \in 0 .. a : c * b >= a /\ \A e \in 0 .. (c - 1) : e * b < a

\* the half-open range [lo, hi) as a sequence of indices
RangeSeq(lo, hi) == [j \in 1 .. (IF hi > lo THEN hi - lo ELSE 0) |-> lo + j - 1]

(* ------------------------------------------------------------------ *)
(* C35: in a rank of the hybrid solver with num_tasks >= 1 seeds and T *)
(* threads, thread k pushes the Tasks with the indices                 *)
(* [k*ceil(num_tasks/T), min((k+1)*ceil(num_tasks/T), num_tasks)) in   *)
(* this order and nothing else, a thread whose range is empty pushes   *)
(* nothing, every Task is on exactly one thread's stack, and the       *)
(* indices at which initial_tasks is read lie in [0, num_tasks).       *)
(* ------------------------------------------------------------------ *)
C35_ThreadPartition ==
    \A r \in Ranks :
      (rpc[r] = "search" /\ Len(my_tasks[r]) >= 1) =>
        LET num_tasks == Len(my_tasks[r])
            share == Ceiling(num_tasks, T)
            range(k) == RangeSeq(k * share, Min2((k + 1) * share, num_tasks))
        IN /\ \A k \in Threads :
                /\ stack[r][k] = [j \in 1 .. Len(range(k)) |->
                                    SeedNode(my_tasks[r][range(k)[j] + 1])]
                /\ ThreadReads(num_tasks, k, T) \subseteq 0 .. (num_tasks - 1)
                /\ ThreadReads(num_tasks, k, T)
                     = { range(k)[j] : j \in 1 .. Len(range(k)) }
           /\ \A i \in 1 .. num_tasks :
                Cardinality({ k \in Threads :
                                \E j \in 1 .. Len(stack[r][k]) :
                                   stack[r][k][j].city = my_tasks[r][i].city }) = 1

\* five seeds on four threads: the shares are 2, 2, 1 and 0 Tasks, and
\* the last thread's start index 6 lies beyond num_tasks
C35_Witness ==
    /\ T = 4
    /\ rpc[0] = "search"
    /\ Len(my_tasks[0]) = 5
    /\ Len(stack[0][0]) = 2
    /\ Len(stack[0][1]) = 2
    /\ Len(stack[0][2]) = 1
    /\ Len(stack[0][3]) = 0

(* ================================================================== *)
(* The hybrid solver on deeper search trees: one generated instance    *)
(* for each N up to MaxDeepN, one thread per rank, so that a rank's    *)
(* search is one sequential depth-first traversal                      *)
(* ================================================================== *)
\* largest number of cities in this specification
MaxDeepN == 8

InitDeep ==
    HybridStartFor(MAX_STACK_SIZE, 1 .. MaxDeepN, 1 .. MaxOrderW, { 1 },
                   [n \in 1 .. MaxDeepN |-> { GenMatrix(n, n) }])

SpecDeep == InitDeep /\ [][Next]_vars

\* the nodes of a stack that hold a partial tour of k cities
AtDepth(stk, k) == { j \in 1 .. Len(stk) : stk[j].depth = k }

\* the stack pointer bound of the claim
StackBound(n) == (n * (n - 1)) \div 2

(* ------------------------------------------------------------------ *)
(* C36: stack bound of the hybrid solver.  A thread's stack never      *)
(* holds more than N-k+1 nodes of depth k (the children of one node of *)
(* depth k-1), for k = 2 .. N, so its stack pointer never exceeds      *)
(* N*(N-1)/2; for every N <= 18 this is below MAX_STACK_SIZE - 1 (153  *)
(* for N = 18), and no child is ever left out because the stack is     *)
(* full.                                                               *)
(* ------------------------------------------------------------------ *)
C36_StackBound ==
    /\ \A r \in Ranks : \A t \in Threads :
         /\ \A k \in 2 .. N : Cardinality(AtDepth(stack[r][t], k)) <= N - k + 1
         /\ \A j \in 1 .. Len(stack[r][t]) : stack[r][t][j].depth \in 2 .. N
         /\ Len(stack[r][t]) <= StackBound(N)
         /\ Len(stack[r][t]) < MAX_STACK_SIZE - 1
    /\ ~dropped
    /\ \A n \in 1 .. MAX_N_V1 : StackBound(n) < MAX_STACK_SIZE - 1
    /\ StackBound(MAX_N_V1) = 153

\* the deepest point of the first descent with eight cities on one rank:
\* seven levels of siblings are on the stack, 6 + 5 + 4 + 3 + 2 + 1 + 1
C36_Witness ==
    /\ N = 8
    /\ W = 1
    /\ rpc[0] = "search"
    /\ Len(stack[0][0]) = 22
    /\ \A k \in 2 .. 7 : Cardinality(AtDepth(stack[0][0], k)) = 8 - k
    /\ Cardinality(AtDepth(stack[0][0], 8)) = 1

(* ================================================================== *)
(* Bound propagation in the Way2 owner-computes solver                 *)
(* ================================================================== *)
\* #define BOUND_UPDATE_INTERVAL 8192, scaled to the search trees of
\* MaxN cities
BOUND_UPDATE_INTERVAL == 2

\* rank q has returned from dfs_with_periodic_sync
Way2SearchEnded(q) == rpc[q] \notin { "w2_start", "w2_dfs" }

\* rank r is in dfs_with_periodic_sync and is about to pop a complete
\* tour: it has expanded the N-2 nodes of depths 2 .. N-1 on the way
Way2AtLeaf(r) ==
    /\ rpc[r] = "w2_dfs"
    /\ Len(stack[r][0]) > 0
    /\ stack[r][0][Len(stack[r][0])].depth = N

(* ------------------------------------------------------------------ *)
(* C37 (as claimed): in the Way2 solver a rank's best_cost is          *)
(* tightened during the search, every BOUND_UPDATE_INTERVAL node       *)
(* expansions, with the best cost found so far on other ranks: a rank  *)
(* that has expanded at least BOUND_UPDATE_INTERVAL nodes holds a      *)
(* best_cost no worse than that of any rank whose search had ended     *)
(* before it started.                                                  *)
(* ------------------------------------------------------------------ *)
C37_BoundPropagation ==
    \A r \in Ranks : \A q \in Ranks :
        (/\ q # r
         /\ N - 2 >= BOUND_UPDATE_INTERVAL
         /\ Way2SearchEnded(q)
         /\ Way2AtLeaf(r))
            => best_cost[r] <= best_cost[q]

(* ================================================================== *)
(* precompute_enhanced_bounds on every symmetric matrix of up to       *)
(* MaxPreN cities whose distances are 0 .. MaxPreDist or INT_MAX, the  *)
(* largest value a distance file can hold                              *)
(* ================================================================== *)
MaxPreN == 4

MaxPreDist == 1

PreDistances == (0 .. MaxPreDist) \cup { INT_MAX }

PreMatrices(n) ==
    { [i \in 0 .. (n - 1) |->
         [j \in 0 .. (n - 1) |->
            IF i = j THEN 0
            ELSE IF i > j THEN f[<< i, j >>] ELSE f[<< j, i >>]]] :
      f \in [LowerPairs(n) -> PreDistances] }

InitPre ==
    HybridStartFor(MAX_STACK_SIZE, 1 .. MaxPreN, { 1 }, { 1 },
                   [n \in 1 .. MaxPreN |-> PreMatrices(n)])

\* main calls precompute_enhanced_bounds after the broadcast; the arrays
\* bounds.cheapest1 and bounds.cheapest2 are recorded in lbs.a and lbs.b
precompute_enhanced_bounds ==
    /\ rpc[0] = "start"
    /\ ~lbs.called
    /\ lbs' = [called |-> TRUE,
               a |-> [i \in Cities |-> cheapest1(i)],
               fast |-> 0,
               b |-> [i \in Cities |-> cheapest2(i)]]
    /\ UNCHANGED v1vars
    /\ UNCHANGED memvars
    /\ UNCHANGED << file, N, W, T, dist, rpc, my_tasks, stack, tpc, cur, lock,
                    best_cost, best_path, contrib, global_best, chan, src,
                    their_cost, best_path_to_show, output >>

NextPre == precompute_enhanced_bounds

SpecPre == InitPre /\ [][NextPre]_vars

\* the smallest value of row i off the diagonal, and the smallest of the
\* rest once one entry with that value is taken out
RowSmallest(i) == MinOf({ dist[i][j] : j \in Cities \ { i } })

RowSecondSmallest(i) ==
    LET j1 == CHOOSE j \in Cities \ { i } : dist[i][j] = RowSmallest(i)
    IN MinOf({ dist[i][j] : j \in Cities \ { i, j1 } })

(* ------------------------------------------------------------------ *)
(* C38 (as claimed): after precompute_enhanced_bounds, for every city  *)
(* i < N, cheapest1[i] is the smallest and cheapest2[i] the second-    *)
(* smallest value (duplicates counted separately) of dist[i][j] over   *)
(* j # i, so cheapest1[i] <= cheapest2[i] when N >= 3; a value that    *)
(* does not exist because the row has fewer than two off-diagonal      *)
(* entries (N < 3) is 0.                                               *)
(* ------------------------------------------------------------------ *)
C38_CheapestPair ==
    lbs.called =>
        \A i \in Cities :
            /\ lbs.a[i] = (IF N >= 2 THEN RowSmallest(i) ELSE 0)
            /\ lbs.b[i] = (IF N >= 3 THEN RowSecondSmallest(i) ELSE 0)
            /\ N >= 3 => lbs.a[i] <= lbs.b[i]

====
